---- MODULE Spec2Model ----
(***************************************************************************)
(* A model of the page-navigation and interrupt-handling code of           *)
(* AzurLaneAutoScript: module/ui/ui.py (UI) and module/coalition/ui.py     *)
(* (CoalitionUI).                                                          *)
(*                                                                         *)
(* A frame (device.image) is the set of the elements that are visible on   *)
(* it.  An interval timer (ModuleBase.interval_timer[button.name]) is      *)
(* either running (its name is in `blocked`) or reached; a running timer   *)
(* may reach its limit whenever time passes, that is at a screenshot or a  *)
(* sleep.                                                                  *)
(***************************************************************************)
EXTENDS Integers, Sequences, FiniteSets, TLC

VARIABLES
    pc,            \* position of the driver / of the running UI method
    destination,   \* ui_goto: argument `destination`
    parent,        \* Page.parent of every declared page
    frame,         \* device.image: the elements visible on the cached frame
    blocked,       \* names of the interval timers that have not reached
    opsi,          \* UI._opsi_reset_fleet_preparation_click
    skip_first,    \* local skip_first_screenshot of the running loop
    ui_current,    \* UI.ui_current
    timeout,       \* ui_get_current_page: the timer `timeout`
    tick,          \* what the last loop iteration did (observation record)
    run,           \* observation of the running ui_goto call as a whole
    ua,            \* one call of ui_additional: its inputs and its result
    uc,            \* locals of the running ui_click call
    em,            \* locals of the running enter_map call
    ue,            \* locals of the running ui_ensure or ui_ensure_index call
    world,         \* what the application shows and how it answers clicks
    cl1            \* the Cl1DataSubmitter, its clock and its endpoint

NONE == "NONE"
NULL == "NULL"

(***************************************************************************)
(* Bounds of the model.                                                    *)
(***************************************************************************)
\* most elements visible together on one frame
MaxVisible == 2

(***************************************************************************)
(* Program constants.                                                      *)
(***************************************************************************)
\* ui_page_os_popups: `_opsi_reset_fleet_preparation_click >= 5`
OpsiLimit == 5
\* ui_get_current_page: Timer(10, count=20)
TimeoutCount == 20

Min(a, b) == IF a < b THEN a ELSE b

(***************************************************************************)
(* The page graph (module/ui/page.py, declared outside the shown sources). *)
(* Pages in Page.iter_pages order.  page_unknown has no check button.      *)
(***************************************************************************)
PageOrder == <<"page_main", "page_main_white", "page_event", "page_sp", "page_unknown">>

Pages == {PageOrder[i] : i \in 1..Len(PageOrder)}

PageIndex(p) == CHOOSE i \in 1..Len(PageOrder) : PageOrder[i] = p

\* Page.check_button
CheckButton(p) ==
    CASE p = "page_main"       -> "MAIN_GOTO_FLEET"
      [] p = "page_main_white" -> "MAIN_GOTO_FLEET_WHITE"
      [] p = "page_event"      -> "EVENT_CHECK"
      [] p = "page_sp"         -> "SP_CHECK"
      [] OTHER                 -> NONE

\* Page.links: for every directly reachable neighbour, the button toward it
Links(p) ==
    CASE p = "page_main"       -> [q \in {"page_event"} |-> "MAIN_GOTO_EVENT"]
      [] p = "page_main_white" -> [q \in {"page_event"} |-> "MAIN_GOTO_EVENT_WHITE"]
      [] p = "page_event"      -> [q \in {"page_main", "page_sp"} |->
                                      IF q = "page_main" THEN "GOTO_MAIN" ELSE "EVENT_GOTO_SP"]
      [] p = "page_sp"         -> [q \in {"page_event"} |-> "BACK_ARROW"]
      [] OTHER                 -> [q \in {"page_main"} |-> "GOTO_MAIN"]

\* the pages a traversal may be asked to reach: they have a check button
Destinations == {p \in Pages : CheckButton(p) # NONE}

NoParent == [p \in Pages |-> NULL]

\* one round of Page.init_connection: every page not yet visited that links
\* to a visited page gets that page (the first in declaration order) as parent
RECURSIVE Connect(_, _)
Connect(visited, par) ==
    LET new == {l \in Pages \ visited : \E p \in visited : p \in DOMAIN Links(l)}
        first(l) == PageOrder[CHOOSE i \in 1..Len(PageOrder) :
                        /\ PageOrder[i] \in visited
                        /\ PageOrder[i] \in DOMAIN Links(l)
                        /\ \A j \in 1..(i - 1) :
                              ~(PageOrder[j] \in visited /\ PageOrder[j] \in DOMAIN Links(l))]
    IN  IF new = {} THEN par
        ELSE Connect(visited \cup new,
                     [p \in Pages |-> IF p \in new THEN first(p) ELSE par[p]])

\* Page.init_connection(destination)
init_connection(dest, par) == Connect({dest}, par)

\* Page.clear_connection()
clear_connection == NoParent

(***************************************************************************)
(* Interrupt rules.  A rule is a guard (elements tried in order, each with *)
(* the interval timer it is throttled by), the clicks it tries in order    *)
(* (cond: the button must be visible, as in appear_then_click without      *)
(* interval), the timers it resets after a click and after a miss, whether *)
(* it counts a RESET_FLEET_PREPARATION click and whether it sleeps and     *)
(* takes a new screenshot before it clicks.                                *)
(***************************************************************************)
Guard(el) == [el |-> el, timer |-> el]

GuardNoInterval(el) == [el |-> el, timer |-> NONE]

Rule(id, guards, acts, resets, missResets, counts, resample) ==
    [id |-> id, guards |-> guards, acts |-> acts, resets |-> resets,
     missResets |-> missResets, counts |-> counts, resample |-> resample]

\* if self.appear_then_click(X, interval=..): return True
AppearThenClick(x) ==
    Rule(x, <<Guard(x)>>, <<[btn |-> x, cond |-> FALSE]>>, {}, {}, FALSE, FALSE)

\* if self.appear(X, interval=..): self.device.click(Y); return True
AppearClick(x, y) ==
    Rule(x, <<Guard(x)>>, <<[btn |-> y, cond |-> FALSE]>>, {}, {}, FALSE, FALSE)

\* if self.appear(X, interval=..): if self.appear_then_click(Y): return True
AppearThenTry(x, ys) ==
    Rule(x, <<Guard(x)>>, [i \in 1..Len(ys) |-> [btn |-> ys[i], cond |-> TRUE]],
         {}, {}, FALSE, FALSE)

\* a handler of InfoHandler (handle_popup_confirm, handle_story_skip, ...):
\* its body is outside the shown sources; it is one predicate on the frame
\* and one click, and reports whether it handled something
Handler(h) ==
    Rule(h, <<GuardNoInterval(h)>>, <<[btn |-> h, cond |-> FALSE]>>, {}, {}, FALSE, FALSE)

\* UI.ui_page_os_popups, after its check of the click counter
OsPopupRules ==
    << AppearThenClick("RESET_TICKET_POPUP"),
       Rule("RESET_FLEET_PREPARATION", <<Guard("RESET_FLEET_PREPARATION")>>,
            <<[btn |-> "RESET_FLEET_PREPARATION", cond |-> FALSE]>>,
            {"FLEET_PREPARATION", "RESET_TICKET_POPUP"}, {}, TRUE, FALSE),
       AppearClick("EXCHANGE_CHECK", "GOTO_MAIN") >>

\* UI.ui_page_main_popups
MainPopupRules(get_ship) ==
    << Handler("handle_guild_popup_cancel"),
       AppearThenClick("LOGIN_ANNOUNCE"),
       AppearThenClick("LOGIN_ANNOUNCE_2"),
       AppearThenClick("GET_ITEMS_1"),
       AppearThenClick("GET_ITEMS_2") >>
    \o (IF get_ship THEN <<AppearThenClick("GET_SHIP")>> ELSE <<>>)
    \o
    << AppearThenClick("LOGIN_RETURN_SIGN"),
       AppearThenTry("EVENT_LIST_CHECK", <<"GOTO_MAIN">>),
       AppearThenClick("MONTHLY_PASS_NOTICE"),
       AppearThenClick("BATTLE_PASS_NOTICE"),
       AppearClick("BATTLE_PASS_NEW_SEASON", "BACK_ARROW"),
       Handler("handle_popup_single"),
       Handler("handle_popup_single_white"),
       AppearThenTry("SHIPYARD_CHECK", <<"GOTO_MAIN">>),
       AppearThenTry("META_CHECK", <<"GOTO_MAIN">>),
       AppearThenTry("PLAYER_CHECK", <<"GOTO_MAIN", "BACK_ARROW">>) >>

\* UI.handle_idle_page: one timer, keyed by IDLE, for the three idle screens
IdleRule ==
    Rule("handle_idle_page",
         << [el |-> "IDLE", timer |-> "IDLE"], [el |-> "IDLE_2", timer |-> "IDLE"],
            [el |-> "IDLE_3", timer |-> "IDLE"] >>,
         <<[btn |-> "REWARD_GOTO_MAIN", cond |-> FALSE]>>, {"IDLE"}, {}, FALSE, FALSE)

\* UI.ui_additional between ui_page_os_popups and ui_page_main_popups
ConfirmRules == << Handler("handle_popup_confirm"), Handler("handle_urgent_commission") >>

\* UI.ui_additional after ui_page_main_popups
TailRules ==
    << Handler("handle_story_skip"),
       AppearClick("GAME_TIPS", "GOTO_MAIN"),
       AppearThenClick("DORM_INFO"),
       AppearThenClick("DORM_FEED_CANCEL"),
       AppearThenClick("DORM_TROPHY_CONFIRM"),
       Rule("MEOWFFICER_INFO", <<Guard("MEOWFFICER_INFO")>>,
            <<[btn |-> "MEOWFFICER_INFO", cond |-> FALSE]>>, {"GET_SHIP"}, {}, FALSE, FALSE),
       Rule("MEOWFFICER_BUY", <<Guard("MEOWFFICER_BUY")>>,
            <<[btn |-> "BACK_ARROW", cond |-> FALSE]>>, {"GET_SHIP"}, {}, FALSE, FALSE),
       Rule("MAP_PREPARATION",
            <<Guard("MAP_PREPARATION"), Guard("FLEET_PREPARATION"), Guard("RAID_FLEET_PREPARATION")>>,
            <<[btn |-> "MAP_PREPARATION_CANCEL", cond |-> FALSE]>>, {}, {}, FALSE, FALSE),
       AppearThenClick("AUTO_SEARCH_MENU_EXIT"),
       AppearThenClick("AUTO_SEARCH_REWARD"),
       Rule("WITHDRAW", <<Guard("WITHDRAW")>>, <<[btn |-> "WITHDRAW", cond |-> TRUE]>>,
            {"WITHDRAW"}, {"WITHDRAW"}, FALSE, TRUE),
       AppearThenClick("LOGIN_CHECK"),
       AppearThenClick("MAINTENANCE_ANNOUNCE"),
       AppearClick("EXERCISE_PREPARATION", "GOTO_MAIN"),
       AppearThenClick("DAL_DIFFICULTY_EXIT"),
       IdleRule,
       AppearClick("MAIN_GOTO_MEMORIES_WHITE", "MAIN_TAB_SWITCH_WHITE") >>

\* the whole chain in the order ui_additional evaluates it
AdditionalRules(get_ship) ==
    OsPopupRules \o ConfirmRules \o MainPopupRules(get_ship) \o TailRules

\* the elements a rule's predicate looks for
GuardElements(r) == {r.guards[i].el : i \in 1..Len(r.guards)}

\* every element some rule of the chain looks for or requires for its click
RuleElements ==
    LET rs == AdditionalRules(TRUE)
    IN  UNION {GuardElements(rs[i]) \cup
               {rs[i].acts[j].btn : j \in {k \in 1..Len(rs[i].acts) : rs[i].acts[k].cond}}
               : i \in 1..Len(rs)}

(***************************************************************************)
(* Evaluation of a rule list on a frame.  The state of an evaluation is    *)
(* the record                                                              *)
(*   handled, raised : what the call returns / whether it raised           *)
(*   click, rule     : the button clicked and the rule that clicked it     *)
(*   frame           : device.image when the call ends                     *)
(*   blocked, opsi   : the interval timers and the click counter           *)
(*   matched         : the rules whose predicate matched, in order         *)
(*   screens         : screenshots taken inside the call                   *)
(***************************************************************************)
Fresh(f, b, n) ==
    [handled |-> FALSE, raised |-> FALSE, click |-> NONE, rule |-> NONE, frame |-> f,
     blocked |-> b, opsi |-> n, matched |-> <<>>, screens |-> 0]

\* ModuleBase.appear(button, interval): the first guard that is visible and
\* whose timer has reached; 0 when there is none
FirstGuard(r, f, b) ==
    LET ok == {i \in 1..Len(r.guards) : r.guards[i].el \in f /\ r.guards[i].timer \notin b}
    IN  IF ok = {} THEN 0 ELSE CHOOSE i \in ok : \A j \in ok : i <= j

\* the first click of the rule that can be issued on frame f; 0 when none
FirstAct(r, f) ==
    LET ok == {i \in 1..Len(r.acts) : ~r.acts[i].cond \/ r.acts[i].btn \in f}
    IN  IF ok = {} THEN 0 ELSE CHOOSE i \in ok : \A j \in ok : i <= j

\* one rule applied to the evaluation state s; f2 is the frame of the
\* screenshot a resampling rule takes, exp2 the timers reaching meanwhile
ApplyRule(r, s, f2, exp2) ==
    LET g  == FirstGuard(r, s.frame, s.blocked)
        b1 == IF r.guards[g].timer = NONE THEN s.blocked
              ELSE s.blocked \cup {r.guards[g].timer}
        fc == IF r.resample THEN f2 ELSE s.frame
        b2 == IF r.resample THEN b1 \ exp2 ELSE b1
        a  == FirstAct(r, fc)
        m  == Append(s.matched, r.id)
        sc == IF r.resample THEN s.screens + 1 ELSE s.screens
    IN  IF \A i \in 1..Len(r.guards) : r.guards[i].el \notin s.frame THEN s
        ELSE IF g = 0 THEN s
        ELSE IF a = 0
        THEN [s EXCEPT !.frame = fc, !.blocked = b2 \cup r.missResets,
                       !.matched = m, !.screens = sc]
        ELSE [s EXCEPT !.handled = TRUE, !.click = r.acts[a].btn, !.rule = r.id,
                       !.frame = fc, !.blocked = b2 \cup r.resets,
                       !.opsi = IF r.counts THEN s.opsi + 1 ELSE s.opsi,
                       !.matched = m, !.screens = sc]

\* the rules from the i-th on, until one has handled something
RECURSIVE EvalRules(_, _, _, _, _)
EvalRules(rules, i, s, f2, exp2) ==
    IF s.handled \/ s.raised \/ i > Len(rules) THEN s
    ELSE EvalRules(rules, i + 1, ApplyRule(rules[i], s, f2, exp2), f2, exp2)

\* ui_page_os_popups raising only once the counter has passed 5
ui_page_os_popups_Sixth(s, f2, exp2) ==
    IF s.opsi > OpsiLimit THEN [s EXCEPT !.raised = TRUE]
    ELSE EvalRules(OsPopupRules, 1, s, f2, exp2)

\* UI.ui_page_os_popups
ui_page_os_popups(s, f2, exp2) ==
    IF s.opsi >= OpsiLimit THEN [s EXCEPT !.raised = TRUE]
    ELSE EvalRules(OsPopupRules, 1, s, f2, exp2)

\* the rule lists of ui_page_main_popups for get_ship=True and get_ship=False
MainPopupRulesShip == MainPopupRules(TRUE)

MainPopupRulesNoShip == MainPopupRules(FALSE)

\* UI.ui_page_main_popups
ui_page_main_popups(s, get_ship, f2, exp2) ==
    EvalRules(IF get_ship THEN MainPopupRulesShip ELSE MainPopupRulesNoShip, 1, s, f2, exp2)

\* UI.ui_additional on frame f, with the timers b and the click counter n
ui_additional(f, b, n, get_ship, f2, exp2) ==
    LET s1 == ui_page_os_popups(Fresh(f, b, n), f2, exp2)
        s2 == EvalRules(ConfirmRules, 1, s1, f2, exp2)
        s3 == IF s2.handled \/ s2.raised THEN s2
              ELSE ui_page_main_popups(s2, get_ship, f2, exp2)
    IN  EvalRules(TailRules, 1, s3, f2, exp2)

(***************************************************************************)
(* The frames the application shows while the navigation engine runs: the  *)
(* check buttons of the declared pages and a few overlays.                 *)
(***************************************************************************)
NavOverlays == {"GOTO_MAIN", "RESET_TICKET_POPUP", "RESET_FLEET_PREPARATION"}

NavElements == {CheckButton(p) : p \in Destinations} \cup NavOverlays

Frames == {f \in SUBSET NavElements : Cardinality(f) <= MaxVisible}

\* The timers kept in the state of the navigation engine: a timer of an
\* element that no frame of Frames shows is never asked again.
Track(b) == b \cap NavElements

\* the frames device.screenshot() may deliver inside ui_additional (WITHDRAW)
Resample(f, b) == IF "WITHDRAW" \in f /\ "WITHDRAW" \notin b THEN Frames ELSE {f}

\* UI.ui_page_appear(page) on frame f
ui_page_appear(page, f) ==
    IF page = "page_main"
    THEN CheckButton("page_main_white") \in f \/ CheckButton("page_main") \in f
    ELSE CheckButton(page) \in f

\* Page.iter_check_buttons
CheckButtons == {CheckButton(p) : p \in Destinations}

\* UI.ui_button_interval_reset(button): the timers it resets
ui_button_interval_reset(button) ==
    (IF button \in {"MEOWFFICER_GOTO_DORMMENU", "DORMMENU_GOTO_DORM", "DORMMENU_GOTO_MEOWFFICER"}
        THEN {"GET_SHIP"} ELSE {})
    \cup (IF \E q \in DOMAIN Links("page_main") : Links("page_main")[q] = button
        THEN {"GET_SHIP"} ELSE {})
    \cup (IF button \in {"MAIN_GOTO_REWARD", "MAIN_GOTO_REWARD_WHITE"} THEN {"GET_SHIP"} ELSE {})
    \cup (IF button = "REWARD_GOTO_TACTICAL" THEN {"REWARD_GOTO_TACTICAL_WHITE"} ELSE {})
    \cup (IF button = "REWARD_GOTO_TACTICAL_WHITE" THEN {"REWARD_GOTO_TACTICAL"} ELSE {})
    \cup (IF button \in {"MAIN_GOTO_CAMPAIGN", "MAIN_GOTO_CAMPAIGN_WHITE"}
        THEN {"GET_SHIP", "RAID_CHECK"} ELSE {})
    \cup (IF button = "SHOP_GOTO_SUPPLY_PACK" THEN {"EXCHANGE_CHECK"} ELSE {})
    \cup (IF button \in {"RPG_GOTO_STAGE", "RPG_GOTO_STORY", "RPG_LEAVE_CITY"}
        THEN {"GET_SHIP"} ELSE {})

\* GotoMatch without the test that the check button appears on the frame
GotoMatch_NoAppear(f, b, par) ==
    LET ok == {i \in 1..Len(PageOrder) :
                  par[PageOrder[i]] # NULL /\ CheckButton(PageOrder[i]) # NONE}
    IN  IF ok = {} THEN NONE ELSE PageOrder[CHOOSE i \in ok : \A j \in ok : i <= j]

\* GotoMatch without the interval of the check button (appear without interval)
GotoMatch_NoInterval(f, b, par) ==
    LET ok == {i \in 1..Len(PageOrder) :
                  /\ par[PageOrder[i]] # NULL
                  /\ CheckButton(PageOrder[i]) # NONE
                  /\ CheckButton(PageOrder[i]) \in f}
    IN  IF ok = {} THEN NONE ELSE PageOrder[CHOOSE i \in ok : \A j \in ok : i <= j]

\* GotoMatch taking the last page of Page.iter_pages that qualifies
GotoMatch_LastInOrder(f, b, par) ==
    LET ok == {i \in 1..Len(PageOrder) :
                  /\ par[PageOrder[i]] # NULL
                  /\ CheckButton(PageOrder[i]) # NONE
                  /\ CheckButton(PageOrder[i]) \in f
                  /\ CheckButton(PageOrder[i]) \notin b}
    IN  IF ok = {} THEN NONE ELSE PageOrder[CHOOSE i \in ok : \A j \in ok : i >= j]

\* ui_goto, the scan of Page.iter_pages: the first page that has a parent
\* and a check button and whose check button appears (interval=5) on frame f
GotoMatch(f, b, par) ==
    LET ok == {i \in 1..Len(PageOrder) :
                  /\ par[PageOrder[i]] # NULL
                  /\ CheckButton(PageOrder[i]) # NONE
                  /\ CheckButton(PageOrder[i]) \in f
                  /\ CheckButton(PageOrder[i]) \notin b}
    IN  IF ok = {} THEN NONE ELSE PageOrder[CHOOSE i \in ok : \A j \in ok : i <= j]

\* EdgeButton taking some link of the page instead of the one to its parent
EdgeButton_AnyLink(page, par) ==
    Links(page)[CHOOSE q \in DOMAIN Links(page) : \A q2 \in DOMAIN Links(page) :
                    PageIndex(q) <= PageIndex(q2)]

\* the button ui_goto clicks for the recognized page: page.links[page.parent]
EdgeButton(page, par) == Links(page)[par[page]]

NoTick == [op |-> NONE, kind |-> NONE, click |-> NONE, page |-> NONE, fresh |-> FALSE]

\* ideal: so far every frame of the call showed exactly one page, the one
\* the last click leads to; expect: the check button the next frame must
\* show for that; start: the page of the first frame; log: the clicks of the
\* call while it is ideal; clicked: the call has issued a click; onDest: the
\* destination was showing when the call began
NoRun == [ideal |-> FALSE, expect |-> NONE, start |-> NONE, log |-> <<>>,
          clicked |-> FALSE, onDest |-> FALSE]

\* the run record of a ui_goto(dest) call that begins on frame f
StartRun(dest, f) ==
    LET on == {p \in Destinations : f = {CheckButton(p)}}
    IN  [ideal |-> on # {},
         expect |-> IF on = {} THEN NONE ELSE CheckButton(CHOOSE p \in on : TRUE),
         start |-> IF on = {} THEN NONE ELSE CHOOSE p \in on : TRUE,
         log |-> <<>>, clicked |-> FALSE, onDest |-> ui_page_appear(dest, f)]

NoCall == [state |-> "off"]

\* device.image before the first screenshot: no element is on it
NoImage == {"NO_IMAGE"}

NoTimeout == [late |-> FALSE, n |-> 0, checked |-> FALSE]

Init ==
    /\ pc = "idle"
    /\ destination = NONE
    /\ parent = NoParent
    /\ frame \in Frames
    /\ blocked = {}
    /\ opsi = 0
    /\ skip_first = FALSE
    /\ ui_current = NONE
    /\ timeout = NoTimeout
    /\ tick = NoTick
    /\ run = NoRun
    /\ ua = NoCall
    /\ uc = NoCall
    /\ em = NoCall
    /\ ue = NoCall
    /\ world = NoCall
    /\ cl1 = NoCall

\* time passes: a running interval timer reaches its limit
TimerReach ==
    /\ pc \in {"idle", "returned", "goto", "page"}
    /\ \E t \in blocked : blocked' = blocked \ {t}
    /\ UNCHANGED <<pc, destination, parent, frame, opsi, skip_first, ui_current,
                   timeout, tick, run, ua, uc, em, ue, world, cl1>>

\* the rest of the program between two calls: it takes a screenshot
Elsewhere ==
    /\ pc \in {"idle", "returned"}
    /\ pc' = "idle"
    /\ frame' \in Frames
    /\ tick' = NoTick
    /\ run' = NoRun
    /\ UNCHANGED <<destination, parent, blocked, opsi, skip_first, ui_current, timeout, ua, uc, em, ue, world, cl1>>

\* UI.ui_goto(destination), up to the loop
ui_goto_call ==
    /\ pc \in {"idle", "returned"}
    /\ \E dest \in Destinations :
          /\ destination' = dest
          /\ parent' = init_connection(dest, parent)
          /\ run' = StartRun(dest, frame)
    /\ blocked' = blocked \ CheckButtons
    /\ skip_first' = TRUE
    /\ pc' = "goto"
    /\ tick' = NoTick
    /\ UNCHANGED <<frame, opsi, ui_current, timeout, ua, uc, em, ue, world, cl1>>

\* the call is still ideal when its next frame is f
StillIdeal(f) == run.ideal /\ f = {run.expect}

\* GotoArrive starting the count of RESET_FLEET_PREPARATION clicks again
GotoArrive_ResetsClickCount(f) ==
    /\ pc' = "returned"
    /\ parent' = clear_connection
    /\ frame' = f
    /\ tick' = [op |-> "ui_goto", kind |-> "arrive", click |-> NONE, page |-> destination,
                fresh |-> ~skip_first]
    /\ run' = [run EXCEPT !.ideal = StillIdeal(f), !.expect = NONE,
                          !.start = IF StillIdeal(f) THEN run.start ELSE NONE,
                          !.log = IF StillIdeal(f) THEN run.log ELSE <<>>]
    /\ opsi' = 0
    /\ UNCHANGED blocked

\* ui_goto: the traversal ends on the destination
GotoArrive(f) ==
    /\ pc' = "returned"
    /\ parent' = clear_connection
    /\ frame' = f
    /\ tick' = [op |-> "ui_goto", kind |-> "arrive", click |-> NONE, page |-> destination,
                fresh |-> ~skip_first]
    /\ run' = [run EXCEPT !.ideal = StillIdeal(f), !.expect = NONE,
                          !.start = IF StillIdeal(f) THEN run.start ELSE NONE,
                          !.log = IF StillIdeal(f) THEN run.log ELSE <<>>]
    /\ UNCHANGED <<blocked, opsi>>

\* GotoEdge going on to the interrupt chain after the edge click
GotoEdge_ThenAdditional(f, pg) ==
    LET button == EdgeButton(pg, parent)
        r == ui_additional(f, blocked \cup {CheckButton(pg)}, opsi, TRUE, f, {})
    IN  /\ pc' = IF r.raised THEN "raised" ELSE pc
        /\ parent' = parent
        /\ frame' = f
        /\ blocked' = Track(r.blocked \cup ui_button_interval_reset(button))
        /\ opsi' = r.opsi
        /\ tick' = [op |-> "ui_goto", kind |-> "edge", click |-> button, page |-> pg,
                    fresh |-> ~skip_first]
        /\ run' = [run EXCEPT !.ideal = FALSE, !.clicked = TRUE, !.expect = NONE,
                              !.start = NONE, !.log = <<>>]

\* ui_goto: the edge click of the recognized page pg
GotoEdge(f, pg) ==
    LET button == EdgeButton(pg, parent)
    IN  /\ pc' = pc
        /\ parent' = parent
        /\ frame' = f
        /\ blocked' = Track((blocked \cup {CheckButton(pg)}) \cup ui_button_interval_reset(button))
        /\ tick' = [op |-> "ui_goto", kind |-> "edge", click |-> button, page |-> pg,
                    fresh |-> ~skip_first]
        /\ run' = [run EXCEPT !.ideal = StillIdeal(f), !.clicked = TRUE,
                              !.expect = IF StillIdeal(f) THEN CheckButton(parent[pg]) ELSE NONE,
                              !.start = IF StillIdeal(f) THEN run.start ELSE NONE,
                              !.log = IF StillIdeal(f) THEN Append(run.log, button) ELSE <<>>]
        /\ UNCHANGED opsi

\* GotoAdditional with a handler that runs a ui_goto of its own, which ends
\* with Page.clear_connection()
GotoAdditional_NestedGoto(f) ==
    \E f2 \in Resample(f, blocked) :
       \E r \in {ui_additional(f, blocked, opsi, TRUE, f2, {})} :
           /\ pc' = IF r.raised THEN "raised" ELSE pc
           /\ parent' = IF r.handled THEN clear_connection ELSE parent
           /\ frame' = r.frame
           /\ blocked' = Track(r.blocked)
           /\ opsi' = r.opsi
           /\ tick' = [op |-> "ui_goto",
                       kind |-> IF r.raised THEN "RequestHumanTakeover"
                                ELSE IF r.handled THEN "interrupt" ELSE "none",
                       click |-> r.click, page |-> NONE, fresh |-> ~skip_first]
           /\ run' = IF StillIdeal(f) /\ ~r.raised
                      THEN [run EXCEPT !.clicked = run.clicked \/ r.click # NONE,
                                       !.log = IF r.click = NONE THEN run.log
                                               ELSE Append(run.log, r.click)]
                      ELSE [run EXCEPT !.ideal = FALSE, !.expect = NONE, !.start = NONE,
                                       !.log = <<>>,
                                       !.clicked = run.clicked \/ r.click # NONE]

\* ui_goto: no edge click; the interrupt chain has the tick
GotoAdditional(f) ==
    \E f2 \in Resample(f, blocked) :
       \E r \in {ui_additional(f, blocked, opsi, TRUE, f2, {})} :
           /\ pc' = IF r.raised THEN "raised" ELSE pc
           /\ parent' = parent
           /\ frame' = r.frame
           /\ blocked' = Track(r.blocked)
           /\ opsi' = r.opsi
           /\ tick' = [op |-> "ui_goto",
                       kind |-> IF r.raised THEN "RequestHumanTakeover"
                                ELSE IF r.handled THEN "interrupt" ELSE "none",
                       click |-> r.click, page |-> NONE, fresh |-> ~skip_first]
           /\ run' = IF StillIdeal(f) /\ ~r.raised
                      THEN [run EXCEPT !.clicked = run.clicked \/ r.click # NONE,
                                       !.log = IF r.click = NONE THEN run.log
                                               ELSE Append(run.log, r.click)]
                      ELSE [run EXCEPT !.ideal = FALSE, !.expect = NONE, !.start = NONE,
                                       !.log = <<>>,
                                       !.clicked = run.clicked \/ r.click # NONE]

\* ui_goto: the first iteration skips the screenshot although device.image
\* is None; the first template match on it raises
GotoBlind ==
    /\ pc' = "raised"
    /\ tick' = [op |-> "ui_goto", kind |-> "NoImage", click |-> NONE, page |-> NONE,
                fresh |-> FALSE]
    /\ UNCHANGED <<parent, frame, blocked, opsi, run>>

\* GotoLoop scanning for the current page before testing the destination
GotoLoop_ScanFirst(S) ==
    /\ pc = "goto"
    /\ skip_first' = FALSE
    /\ \E f \in (IF skip_first THEN {frame} ELSE S) :
          LET pg == GotoMatch(f, blocked, parent)
          IN  IF pg # NONE THEN GotoEdge(f, pg)
              ELSE IF ui_page_appear(destination, f) THEN GotoArrive(f)
              ELSE GotoAdditional(f)
    /\ UNCHANGED <<destination, ui_current, timeout, ua, uc, em, ue>>

\* GotoLoop giving the interrupt chain the tick before the page scan
GotoLoop_InterruptFirst(S) ==
    /\ pc = "goto"
    /\ skip_first' = FALSE
    /\ \E f \in (IF skip_first THEN {frame} ELSE S) :
          LET pg == GotoMatch(f, blocked, parent)
              ov == ui_additional(f, blocked, opsi, TRUE, f, {})
          IN  IF ui_page_appear(destination, f) THEN GotoArrive(f)
              ELSE IF pg # NONE /\ ~ov.handled /\ ~ov.raised THEN GotoEdge(f, pg)
              ELSE GotoAdditional(f)
    /\ UNCHANGED <<destination, ui_current, timeout, ua, uc, em, ue>>

\* UI.ui_goto: one iteration of its loop, when device.screenshot() delivers
\* a frame of S
GotoLoop(S) ==
    /\ pc = "goto"
    /\ skip_first' = FALSE
    /\ IF skip_first /\ frame = NoImage
       THEN GotoBlind
       ELSE \E f \in (IF skip_first THEN {frame} ELSE S) :
               LET pg == GotoMatch(f, blocked, parent)
               IN  IF ui_page_appear(destination, f) THEN GotoArrive(f)
                   ELSE IF pg # NONE THEN GotoEdge(f, pg)
                   ELSE GotoAdditional(f)
    /\ UNCHANGED <<destination, ui_current, timeout, ua, uc, em, ue>>

\* UI.ui_goto: one iteration of its loop, on any frame
ui_goto_tick == GotoLoop(Frames) /\ UNCHANGED <<world, cl1>>

\* UI.ui_get_current_page(), up to the loop: timeout = Timer(10, count=20).start()
ui_get_current_page_call ==
    /\ pc \in {"idle", "returned"}
    /\ pc' = "page"
    /\ skip_first' = TRUE
    /\ timeout' = NoTimeout
    /\ tick' = NoTick
    /\ run' = NoRun
    /\ UNCHANGED <<destination, parent, frame, blocked, opsi, ui_current, ua, uc, em, ue, world, cl1>>

\* time passes: more than the 10 seconds of `timeout` since its last reset
TimeoutLate ==
    /\ pc = "page"
    /\ ~timeout.late
    /\ timeout' = [timeout EXCEPT !.late = TRUE]
    /\ UNCHANGED <<pc, destination, parent, frame, blocked, opsi, skip_first, ui_current,
                   tick, run, ua, uc, em, ue, world, cl1>>

\* ui_get_current_page, the scan of Page.iter_pages: the first page with a
\* check button that ui_page_appear finds on frame f
PageMatch(f) ==
    LET ok == {i \in 1..Len(PageOrder) :
                  CheckButton(PageOrder[i]) # NONE /\ ui_page_appear(PageOrder[i], f)}
    IN  IF ok = {} THEN NONE ELSE PageOrder[CHOOSE i \in ok : \A j \in ok : i <= j]

\* ui_get_current_page: the go-home buttons it tries, in order, on an unknown page
HomeButtons == <<"GOTO_MAIN", "GOTO_MAIN_WHITE", "RPG_HOME">>

\* the first go-home button that appears (interval=2) on frame f
HomeMatch(f, b) ==
    LET ok == {i \in 1..Len(HomeButtons) : HomeButtons[i] \in f /\ HomeButtons[i] \notin b}
    IN  IF ok = {} THEN NONE ELSE HomeButtons[CHOOSE i \in ok : \A j \in ok : i <= j]

\* Timer.reset()
TimerReset(t) == [t EXCEPT !.late = FALSE, !.n = 0]

PageTick(kind, click, page) ==
    [op |-> "ui_get_current_page", kind |-> kind, click |-> click, page |-> page,
     fresh |-> FALSE]

\* ui_get_current_page: the tick after the timeout check, on frame f, with
\* the timer t already polled
PageStep(f, t) ==
    LET pg == PageMatch(f)
        hb == HomeMatch(f, blocked)
    IN  IF pg # NONE
        THEN /\ pc' = "returned"
             /\ ui_current' = pg
             /\ frame' = f
             /\ timeout' = NoTimeout
             /\ tick' = PageTick("page", NONE, pg)
             /\ UNCHANGED <<blocked, opsi>>
        ELSE IF hb # NONE
        THEN /\ pc' = pc
             /\ frame' = f
             /\ blocked' = Track(blocked \cup {hb})
             /\ timeout' = TimerReset(t)
             /\ tick' = PageTick("home", hb, NONE)
             /\ UNCHANGED <<ui_current, opsi>>
        ELSE \E f2 \in Resample(f, blocked) :
             \E r \in {ui_additional(f, blocked, opsi, TRUE, f2, {})} :
             \E running \in (IF r.handled \/ r.raised \/ t.checked THEN {TRUE} ELSE BOOLEAN) :
                /\ pc' = IF r.raised \/ ~running THEN "raised" ELSE pc
                /\ frame' = r.frame
                /\ blocked' = Track(r.blocked)
                /\ opsi' = r.opsi
                /\ timeout' = IF r.raised \/ ~running THEN NoTimeout
                              ELSE IF r.handled THEN TimerReset(t)
                              ELSE [t EXCEPT !.checked = TRUE]
                /\ tick' = PageTick(IF r.raised THEN "RequestHumanTakeover"
                                    ELSE IF r.handled THEN "interrupt"
                                    ELSE IF ~running THEN "GameNotRunningError" ELSE "none",
                                    r.click, NONE)
                /\ UNCHANGED ui_current

\* UI.ui_get_current_page: one iteration of its loop, when
\* device.screenshot() delivers a frame of S
PageLoop(S) ==
    /\ pc = "page"
    /\ skip_first' = FALSE
    /\ \E f \in (IF skip_first /\ frame # NoImage THEN {frame} ELSE S) :
       \E t \in {[timeout EXCEPT !.n = Min(timeout.n + 1, TimeoutCount + 1)]} :
          IF t.late /\ t.n > TimeoutCount
          THEN /\ pc' = "raised"
               /\ frame' = f
               /\ timeout' = NoTimeout
               /\ tick' = PageTick("GamePageUnknownError", NONE, NONE)
               /\ UNCHANGED <<blocked, opsi, ui_current>>
          ELSE PageStep(f, t)
    /\ UNCHANGED <<destination, parent, run, ua, uc, em, ue>>

\* UI.ui_get_current_page: one iteration of its loop, on any frame
ui_get_current_page_tick == PageLoop(Frames) /\ UNCHANGED <<world, cl1>>

\* UI.ui_main_appear_then_click(page) on the current frame
ui_main_appear_then_click ==
    /\ pc \in {"idle", "returned"}
    /\ pc' = "idle"
    /\ \E page \in DOMAIN Links("page_main") :
          IF CheckButton("page_main") \in frame /\ CheckButton("page_main") \notin blocked
          THEN /\ blocked' = Track(blocked \cup {CheckButton("page_main")})
               /\ tick' = [op |-> "ui_main_appear_then_click", kind |-> "edge",
                           click |-> Links("page_main")[page], page |-> "page_main",
                           fresh |-> FALSE]
          ELSE IF /\ CheckButton("page_main_white") \in frame
                  /\ CheckButton("page_main_white") \notin blocked
          THEN /\ blocked' = Track(blocked \cup {CheckButton("page_main_white")})
               /\ tick' = [op |-> "ui_main_appear_then_click", kind |-> "edge",
                           click |-> Links("page_main_white")[page],
                           page |-> "page_main_white", fresh |-> FALSE]
          ELSE /\ blocked' = blocked
               /\ tick' = [op |-> "ui_main_appear_then_click", kind |-> "none",
                           click |-> NONE, page |-> NONE, fresh |-> FALSE]
    /\ run' = NoRun
    /\ UNCHANGED <<destination, parent, frame, opsi, skip_first, ui_current, timeout, ua, uc, em, ue, world, cl1>>

\* the navigation engine: ui_goto and ui_main_appear_then_click
Next ==
    \/ TimerReach
    \/ Elsewhere
    \/ ui_goto_call
    \/ ui_goto_tick
    \/ ui_main_appear_then_click

\* page identification: ui_get_current_page
NextPage ==
    \/ TimerReach
    \/ TimeoutLate
    \/ Elsewhere
    \/ ui_get_current_page_call
    \/ ui_get_current_page_tick

vars == <<pc, destination, parent, frame, blocked, opsi, skip_first, ui_current,
          timeout, tick, run, ua, uc, em, ue, world, cl1>>

Spec == Init /\ [][Next]_vars

SpecPage == Init /\ [][NextPage]_vars

(***************************************************************************)
(* UI.ui_ensure: ui_get_current_page, then ui_goto unless the page found   *)
(* is the destination.                                                     *)
(***************************************************************************)

\* UI.ui_ensure(destination, skip_first_screenshot), up to the loop of
\* ui_get_current_page
ui_ensure_call ==
    /\ pc = "idle"
    /\ ue = NoCall
    /\ \E dest \in Destinations : \E skip \in BOOLEAN :
          /\ ue' = [state |-> "page", destination |-> dest, result |-> NONE]
          /\ skip_first' = skip
    /\ pc' = "page"
    /\ timeout' = NoTimeout
    /\ tick' = NoTick
    /\ run' = NoRun
    /\ UNCHANGED <<destination, parent, frame, blocked, opsi, ui_current, ua, uc, em, world, cl1>>

\* ui_ensure after ui_get_current_page has returned: the comparison of
\* ui_current with the destination, and ui_goto up to its loop
ui_ensure_compare ==
    /\ pc = "returned"
    /\ ue # NoCall
    /\ ue.state = "page"
    /\ IF ui_current = ue.destination
       THEN /\ ue' = [ue EXCEPT !.state = "done", !.result = FALSE]
            /\ UNCHANGED <<pc, destination, parent, blocked, skip_first, run, tick>>
       ELSE /\ ue' = [ue EXCEPT !.state = "goto"]
            /\ destination' = ue.destination
            /\ parent' = init_connection(ue.destination, parent)
            /\ run' = StartRun(ue.destination, frame)
            /\ blocked' = blocked \ CheckButtons
            /\ skip_first' = TRUE
            /\ pc' = "goto"
            /\ tick' = NoTick
    /\ UNCHANGED <<frame, opsi, ui_current, timeout, ua, uc, em, world, cl1>>

\* ui_ensure after ui_goto has returned
ui_ensure_return ==
    /\ pc = "returned"
    /\ ue # NoCall
    /\ ue.state = "goto"
    /\ ue' = [ue EXCEPT !.state = "done", !.result = TRUE]
    /\ UNCHANGED <<pc, destination, parent, frame, blocked, opsi, skip_first, ui_current,
                   timeout, tick, run, ua, uc, em, world, cl1>>

\* time passes while ui_ensure runs: an interval timer reaches its limit
EnsureTimerReach ==
    /\ pc \in {"goto", "page"}
    /\ \E t \in blocked : blocked' = blocked \ {t}
    /\ UNCHANGED <<pc, destination, parent, frame, opsi, skip_first, ui_current,
                   timeout, tick, run, ua, uc, em, ue, world, cl1>>

NextEnsure ==
    \/ EnsureTimerReach
    \/ TimeoutLate
    \/ ui_ensure_call
    \/ ui_get_current_page_tick
    \/ ui_ensure_compare
    \/ ui_goto_tick
    \/ ui_ensure_return

SpecEnsure == Init /\ [][NextEnsure]_vars

(***************************************************************************)
(* The first call after the device is connected: device.image may still be *)
(* None when ui_goto or ui_get_current_page is called.                     *)
(***************************************************************************)
InitSample ==
    /\ pc = "idle"
    /\ destination = NONE
    /\ parent = NoParent
    /\ frame \in Frames \cup {NoImage}
    /\ blocked = {}
    /\ opsi = 0
    /\ skip_first = FALSE
    /\ ui_current = NONE
    /\ timeout = NoTimeout
    /\ tick = NoTick
    /\ run = NoRun
    /\ ua = NoCall
    /\ uc = NoCall
    /\ em = NoCall
    /\ ue = NoCall
    /\ world = NoCall
    /\ cl1 = NoCall

\* the one call of the run, with the default skip_first_screenshot=True
SampleCall ==
    /\ pc = "idle"
    /\ (ui_goto_call \/ ui_get_current_page_call)

NextSample ==
    \/ TimerReach
    \/ TimeoutLate
    \/ SampleCall
    \/ ui_goto_tick
    \/ ui_get_current_page_tick

SpecSample == InitSample /\ [][NextSample]_vars

(***************************************************************************)
(* An application under the navigation engine: the page it shows, the      *)
(* overlay in front of the page, and how it answers a click.               *)
(***************************************************************************)

\* overlays that appear during one run of the application
MaxOverlays == 2

\* the overlays of the application; the rule that matches one clicks it
Overlays == {"RESET_TICKET_POPUP", "RESET_FLEET_PREPARATION"}

\* page: the page shown; overlay: the overlay in front of it; covered: the
\* overlay hides the page's check button; budget: the overlays that may
\* still appear; responsive: clicks take effect; shots: the parity of the
\* number of screenshots served
Worlds ==
    {w \in [page : Pages, overlay : Overlays \cup {NONE}, covered : BOOLEAN,
            budget : 0..MaxOverlays, responsive : BOOLEAN, shots : {0}] :
        w.covered => w.overlay # NONE}

\* what device.screenshot() delivers: a page without a check button shows
\* its go-home button
WorldFrame(w) ==
    (IF w.overlay = NONE THEN {} ELSE {w.overlay})
    \cup (IF w.covered THEN {}
          ELSE IF CheckButton(w.page) # NONE THEN {CheckButton(w.page)}
          ELSE {"GOTO_MAIN"})

\* the application after a loop iteration that clicked `click` (NONE: no
\* click): a click on the overlay removes it, a click on a link button of
\* the page shown opens the linked page
Answer(w, click) ==
    LET to == {q \in DOMAIN Links(w.page) : Links(w.page)[q] = click}
        served == [w EXCEPT !.shots = 1 - w.shots]
    IN  IF click = NONE \/ ~w.responsive THEN served
        ELSE IF click = w.overlay
        THEN [served EXCEPT !.overlay = NONE, !.covered = FALSE]
        ELSE IF to # {} THEN [served EXCEPT !.page = CHOOSE q \in to : TRUE]
        ELSE served

InitWorld ==
    /\ pc = "idle"
    /\ destination = NONE
    /\ parent = NoParent
    /\ world \in Worlds
    /\ cl1 = NoCall
    /\ frame = WorldFrame(world)
    /\ blocked = {}
    /\ opsi \in {0, OpsiLimit - 1}
    /\ skip_first = FALSE
    /\ ui_current = NONE
    /\ timeout = NoTimeout
    /\ tick = NoTick
    /\ run = NoRun
    /\ ua = NoCall
    /\ uc = NoCall
    /\ em = NoCall
    /\ ue = NoCall

\* an overlay appears in front of the page
WorldOverlay ==
    /\ pc \in {"goto", "page"}
    /\ world.overlay = NONE
    /\ world.budget > 0
    /\ \E o \in Overlays : \E c \in BOOLEAN :
          world' = [world EXCEPT !.overlay = o, !.covered = c, !.budget = world.budget - 1]
    /\ UNCHANGED <<pc, destination, parent, frame, blocked, opsi, skip_first, ui_current,
                   timeout, tick, run, ua, uc, em, ue, cl1>>

\* one iteration of the loop of ui_goto on the application
ui_goto_world ==
    /\ GotoLoop({WorldFrame(world)})
    /\ world' = Answer(world, tick'.click)
    /\ UNCHANGED cl1

\* one iteration of the loop of ui_get_current_page on the application
ui_get_current_page_world ==
    /\ PageLoop({WorldFrame(world)})
    /\ world' = Answer(world, tick'.click)
    /\ UNCHANGED cl1

\* the one call of the run
WorldCall ==
    /\ pc = "idle"
    /\ (ui_goto_call \/ ui_get_current_page_call)

NextWorld ==
    \/ TimerReach
    \/ TimeoutLate
    \/ WorldOverlay
    \/ WorldCall
    \/ ui_goto_world
    \/ ui_get_current_page_world

SpecWorld == InitWorld /\ [][NextWorld]_vars

\* the loops keep iterating and time passes: the interval timers run out
\* and the 10 seconds of `timeout` go by.  An iteration of
\* ui_goto is enabled exactly when pc = "goto" and one of
\* ui_get_current_page exactly when pc = "page", and every iteration changes
\* world.shots: the last two conjuncts are WF_vars(ui_goto_world) and
\* WF_vars(ui_get_current_page_world) with ENABLED written out.
FairSpecWorld ==
    /\ SpecWorld
    /\ WF_vars(TimerReach)
    /\ WF_vars(TimeoutLate)
    /\ ([]<>(pc # "goto") \/ []<><<ui_goto_world>>_vars)
    /\ ([]<>(pc # "page") \/ []<><<ui_get_current_page_world>>_vars)

(***************************************************************************)
(* CoalitionUI.enter_map (src/module/coalition/ui.py).                     *)
(***************************************************************************)

\* the largest value of a click counter with which the loop goes on
ClickLimit == 5

\* the calls of enter_map that are followed: two events, with a stage that
\* needs no fleet switch, one that needs it, and a stage name of another event
EnterMapCalls ==
    { <<"coalition_20230323", "tc1">>, <<"coalition_20230323", "tc3">>,
      <<"coalition_20251120", "area1-normal">>,
      <<"coalition_20230323", "area1-normal">> }

\* coalition_get_entrance answering a pair without an entry with a button
coalition_get_entrance_Default(event, stage) ==
    CASE event = "coalition_20230323" /\ stage = "tc1" -> "FROSTFALL_TC1"
      [] event = "coalition_20230323" /\ stage = "tc3" -> "FROSTFALL_TC3"
      [] event = "coalition_20251120" /\ stage = "area1-normal" -> "DAL_AREA1"
      [] OTHER -> "FROSTFALL_TC1"

\* CoalitionUI.coalition_get_entrance, on the stages above
coalition_get_entrance(event, stage) ==
    CASE event = "coalition_20230323" /\ stage = "tc1" -> "FROSTFALL_TC1"
      [] event = "coalition_20230323" /\ stage = "tc3" -> "FROSTFALL_TC3"
      [] event = "coalition_20251120" /\ stage = "area1-normal" -> "DAL_AREA1"
      [] OTHER -> "CampaignNameError"

\* CoalitionUI.coalition_20251120_get_entrance_difficulty, on the stages above
coalition_20251120_get_entrance_difficulty(event, stage) ==
    CASE event = "coalition_20251120" /\ stage = "area1-normal" -> "DAL_NORMAL"
      [] OTHER -> "CampaignNameError"

\* CoalitionUI.coalition_get_fleet_preparation
coalition_get_fleet_preparation(event) ==
    CASE event = "coalition_20230323" -> "FROSTFALL_FLEET_PREPARATION"
      [] event = "coalition_20251120" -> "DAL_FLEET_PREPARATION"
      [] OTHER -> "ScriptError"

\* CoalitionUI.coalition_ensure_fleet: the exception it ends with, or NONE
coalition_ensure_fleet(event) ==
    IF event \in {"coalition_20230323", "coalition_20240627", "coalition_20250626",
                  "coalition_20260122"}
    THEN NONE
    ELSE "ScriptError"

\* CoalitionUI.handle_fleet_preparation: the exception it ends with, or NONE
handle_fleet_preparation(event, stage) ==
    IF \/ event = "coalition_20230323" /\ stage \in {"tc1", "sp"}
       \/ event = "coalition_20240627" /\ stage \in {"easy", "sp", "ex"}
       \/ event = "coalition_20250626" /\ stage \in {"easy", "sp", "ex"}
    THEN NONE
    ELSE coalition_ensure_fleet(event)

\* the markers of a fleet that is not prepared, in the order they are tested
FleetMarkers ==
    << "FLEET_NOT_PREPARED", "EMPTY_FLAGSHIP", "EMPTY_VANGUARD",
       "Light_Shadow_Fashion_FLEET_NOT_PREPARED",
       "Light_Shadow_Fashion_EMPTY_FLAGSHIP",
       "Light_Shadow_Fashion_EMPTY_VANGUARD" >>

\* the interrupt handlers of the loop, in the order they are tried
EnterMapHandlers ==
    << "handle_guild_popup_cancel", "handle_auto_search_continue",
       "handle_retirement", "handle_combat_low_emotion",
       "handle_urgent_commission", "handle_story_skip",
       "handle_combat_automation_confirm" >>

\* the handlers after which campaign_timer is reset
CampaignResetHandlers == {"handle_auto_search_continue", "handle_story_skip"}

\* the elements of a frame that are followed during enter_map
EnterMapElements ==
    { "FLEET_NOT_PREPARED", "BATTLE_PREPARATION", "handle_guild_popup_cancel",
      "handle_story_skip", "COALITION_CHECK", "DAL_DIFFICULTY_EXIT",
      "FROSTFALL_FLEET_PREPARATION", "DAL_FLEET_PREPARATION" }

EnterMapFrames == {f \in SUBSET EnterMapElements : Cardinality(f) <= MaxVisible}

\* CoalitionUI.in_coalition
in_coalition(f) == "COALITION_CHECK" \in f

\* CoalitionUI.in_coalition_20251120_difficulty_selection
in_coalition_20251120_difficulty_selection(f) == "DAL_DIFFICULTY_EXIT" \in f

\* the first element of the sequence seq that is in the set f, or NONE
FirstIn(seq, f) ==
    LET hit == {i \in 1..Len(seq) : seq[i] \in f}
    IN  IF hit = {} THEN NONE ELSE seq[CHOOSE i \in hit : \A j \in hit : i <= j]

InitEnterMap ==
    /\ pc = "idle"
    /\ destination = NONE
    /\ parent = NoParent
    /\ frame \in EnterMapFrames
    /\ blocked = {}
    /\ opsi = 0
    /\ skip_first = FALSE
    /\ ui_current = NONE
    /\ timeout = NoTimeout
    /\ tick = NoTick
    /\ run = NoRun
    /\ ua = NoCall
    /\ uc = NoCall
    /\ em = NoCall
    /\ ue = NoCall
    /\ world = NoCall
    /\ cl1 = NoCall

EnterMapTick(kind, click) ==
    [op |-> "enter_map", kind |-> kind, click |-> click, page |-> NONE, fresh |-> FALSE]

\* CoalitionUI.enter_map(event, stage, mode), up to the loop
enter_map_call ==
    /\ pc \in {"idle", "returned"}
    /\ \E c \in EnterMapCalls :
          LET event == c[1]
              stage == c[2]
              button == coalition_get_entrance(event, stage)
              difficulty == IF event = "coalition_20251120"
                            THEN coalition_20251120_get_entrance_difficulty(event, stage)
                            ELSE NONE
          IN  IF "CampaignNameError" \in {button, difficulty}
              THEN /\ pc' = "raised"
                   /\ tick' = EnterMapTick("CampaignNameError", NONE)
                   /\ em' = NoCall
                   /\ UNCHANGED skip_first
              ELSE /\ pc' = "enter_map"
                   /\ tick' = EnterMapTick(NONE, NONE)
                   /\ em' = [state |-> "loop", event |-> event, stage |-> stage,
                             button |-> button, button_difficulty |-> NONE,
                             fleet_preparation |-> coalition_get_fleet_preparation(event),
                             campaign_click |-> 0, campaign_difficulty_click |-> 0,
                             fleet_click |-> 0]
                   /\ skip_first' = TRUE
    /\ blocked' = {}
    /\ UNCHANGED <<destination, parent, frame, opsi, ui_current, timeout, run, ua, uc, ue, world, cl1>>

\* time passes: one of the three timers of the loop reaches its limit
EnterMapTimerReach ==
    /\ pc = "enter_map"
    /\ \E t \in blocked : blocked' = blocked \ {t}
    /\ UNCHANGED <<pc, destination, parent, frame, opsi, skip_first, ui_current,
                   timeout, tick, run, ua, uc, em, ue, world, cl1>>

\* enter_map trying its interrupt handlers after the three click cases
EnterMapStep_ClickFirst(f) ==
    LET marker == FirstIn(FleetMarkers, f)
        handler == FirstIn(EnterMapHandlers, f)
        prepared == handle_fleet_preparation(em.event, em.stage)
        raise(kind) == /\ pc' = "raised"
                       /\ tick' = EnterMapTick(kind, NONE)
                       /\ UNCHANGED <<blocked, em>>
    IN  IF em.campaign_click > ClickLimit \/ em.campaign_difficulty_click > ClickLimit
           \/ em.fleet_click > ClickLimit
        THEN raise("RequestHumanTakeover")
        ELSE IF marker # NONE
        THEN raise("RequestHumanTakeover")
        ELSE IF "BATTLE_PREPARATION" \in f
        THEN /\ pc' = "returned"
             /\ tick' = EnterMapTick("arrive", NONE)
             /\ UNCHANGED <<blocked, em>>
        ELSE IF "campaign_timer" \notin blocked /\ in_coalition(f)
        THEN /\ pc' = "enter_map"
             /\ tick' = EnterMapTick("entrance", em.button)
             /\ em' = [em EXCEPT !.campaign_click = @ + 1]
             /\ blocked' = blocked \cup {"campaign_timer"}
        ELSE IF /\ em.event = "coalition_20251120"
                /\ "campaign_difficulty_timer" \notin blocked
                /\ in_coalition_20251120_difficulty_selection(f)
                /\ em.button_difficulty # NONE
        THEN /\ pc' = "enter_map"
             /\ tick' = EnterMapTick("difficulty", em.button_difficulty)
             /\ em' = [em EXCEPT !.campaign_difficulty_click = @ + 1]
             /\ blocked' = blocked \cup {"campaign_difficulty_timer"}
        ELSE IF "fleet_timer" \notin blocked /\ em.fleet_preparation \in f
        THEN IF prepared # NONE
             THEN raise(prepared)
             ELSE /\ pc' = "enter_map"
                  /\ tick' = EnterMapTick("fleet", em.fleet_preparation)
                  /\ em' = [em EXCEPT !.fleet_click = @ + 1]
                  /\ blocked' = blocked \cup {"fleet_timer", "campaign_timer"}
        ELSE IF handler # NONE
        THEN /\ pc' = "enter_map"
             /\ tick' = EnterMapTick("interrupt", handler)
             /\ blocked' = IF handler \in CampaignResetHandlers
                           THEN blocked \cup {"campaign_timer"}
                           ELSE blocked
             /\ UNCHANGED em
        ELSE /\ pc' = "enter_map"
             /\ tick' = EnterMapTick("none", NONE)
             /\ UNCHANGED <<blocked, em>>

\* enter_map testing BATTLE_PREPARATION before its fatal checks
EnterMapStep_ArriveFirst(f) ==
    LET marker == FirstIn(FleetMarkers, f)
        handler == FirstIn(EnterMapHandlers, f)
        prepared == handle_fleet_preparation(em.event, em.stage)
        raise(kind) == /\ pc' = "raised"
                       /\ tick' = EnterMapTick(kind, NONE)
                       /\ UNCHANGED <<blocked, em>>
    IN  IF "BATTLE_PREPARATION" \in f
        THEN /\ pc' = "returned"
             /\ tick' = EnterMapTick("arrive", NONE)
             /\ UNCHANGED <<blocked, em>>
        ELSE IF em.campaign_click > ClickLimit \/ em.campaign_difficulty_click > ClickLimit
           \/ em.fleet_click > ClickLimit
        THEN raise("RequestHumanTakeover")
        ELSE IF marker # NONE
        THEN raise("RequestHumanTakeover")
        ELSE IF handler # NONE
        THEN /\ pc' = "enter_map"
             /\ tick' = EnterMapTick("interrupt", handler)
             /\ blocked' = IF handler \in CampaignResetHandlers
                           THEN blocked \cup {"campaign_timer"}
                           ELSE blocked
             /\ UNCHANGED em
        ELSE IF "campaign_timer" \notin blocked /\ in_coalition(f)
        THEN /\ pc' = "enter_map"
             /\ tick' = EnterMapTick("entrance", em.button)
             /\ em' = [em EXCEPT !.campaign_click = @ + 1]
             /\ blocked' = blocked \cup {"campaign_timer"}
        ELSE IF /\ em.event = "coalition_20251120"
                /\ "campaign_difficulty_timer" \notin blocked
                /\ in_coalition_20251120_difficulty_selection(f)
                /\ em.button_difficulty # NONE
        THEN /\ pc' = "enter_map"
             /\ tick' = EnterMapTick("difficulty", em.button_difficulty)
             /\ em' = [em EXCEPT !.campaign_difficulty_click = @ + 1]
             /\ blocked' = blocked \cup {"campaign_difficulty_timer"}
        ELSE IF "fleet_timer" \notin blocked /\ em.fleet_preparation \in f
        THEN IF prepared # NONE
             THEN raise(prepared)
             ELSE /\ pc' = "enter_map"
                  /\ tick' = EnterMapTick("fleet", em.fleet_preparation)
                  /\ em' = [em EXCEPT !.fleet_click = @ + 1]
                  /\ blocked' = blocked \cup {"fleet_timer", "campaign_timer"}
        ELSE /\ pc' = "enter_map"
             /\ tick' = EnterMapTick("none", NONE)
             /\ UNCHANGED <<blocked, em>>

\* enter_map whose fleet-preparation click leaves campaign_timer alone
EnterMapStep_FleetKeepsCampaignTimer(f) ==
    LET marker == FirstIn(FleetMarkers, f)
        handler == FirstIn(EnterMapHandlers, f)
        prepared == handle_fleet_preparation(em.event, em.stage)
        raise(kind) == /\ pc' = "raised"
                       /\ tick' = EnterMapTick(kind, NONE)
                       /\ UNCHANGED <<blocked, em>>
    IN  IF em.campaign_click > ClickLimit \/ em.campaign_difficulty_click > ClickLimit
           \/ em.fleet_click > ClickLimit
        THEN raise("RequestHumanTakeover")
        ELSE IF marker # NONE
        THEN raise("RequestHumanTakeover")
        ELSE IF "BATTLE_PREPARATION" \in f
        THEN /\ pc' = "returned"
             /\ tick' = EnterMapTick("arrive", NONE)
             /\ UNCHANGED <<blocked, em>>
        ELSE IF handler # NONE
        THEN /\ pc' = "enter_map"
             /\ tick' = EnterMapTick("interrupt", handler)
             /\ blocked' = IF handler \in CampaignResetHandlers
                           THEN blocked \cup {"campaign_timer"}
                           ELSE blocked
             /\ UNCHANGED em
        ELSE IF "campaign_timer" \notin blocked /\ in_coalition(f)
        THEN /\ pc' = "enter_map"
             /\ tick' = EnterMapTick("entrance", em.button)
             /\ em' = [em EXCEPT !.campaign_click = @ + 1]
             /\ blocked' = blocked \cup {"campaign_timer"}
        ELSE IF /\ em.event = "coalition_20251120"
                /\ "campaign_difficulty_timer" \notin blocked
                /\ in_coalition_20251120_difficulty_selection(f)
                /\ em.button_difficulty # NONE
        THEN /\ pc' = "enter_map"
             /\ tick' = EnterMapTick("difficulty", em.button_difficulty)
             /\ em' = [em EXCEPT !.campaign_difficulty_click = @ + 1]
             /\ blocked' = blocked \cup {"campaign_difficulty_timer"}
        ELSE IF "fleet_timer" \notin blocked /\ em.fleet_preparation \in f
        THEN IF prepared # NONE
             THEN raise(prepared)
             ELSE /\ pc' = "enter_map"
                  /\ tick' = EnterMapTick("fleet", em.fleet_preparation)
                  /\ em' = [em EXCEPT !.fleet_click = @ + 1]
                  /\ blocked' = blocked \cup {"fleet_timer"}
        ELSE /\ pc' = "enter_map"
             /\ tick' = EnterMapTick("none", NONE)
             /\ UNCHANGED <<blocked, em>>

\* one iteration of the loop of enter_map on frame f
EnterMapStep(f) ==
    LET marker == FirstIn(FleetMarkers, f)
        handler == FirstIn(EnterMapHandlers, f)
        prepared == handle_fleet_preparation(em.event, em.stage)
        raise(kind) == /\ pc' = "raised"
                       /\ tick' = EnterMapTick(kind, NONE)
                       /\ UNCHANGED <<blocked, em>>
    IN  IF em.campaign_click > ClickLimit \/ em.campaign_difficulty_click > ClickLimit
           \/ em.fleet_click > ClickLimit
        THEN raise("RequestHumanTakeover")
        ELSE IF marker # NONE
        THEN raise("RequestHumanTakeover")
        ELSE IF "BATTLE_PREPARATION" \in f
        THEN /\ pc' = "returned"
             /\ tick' = EnterMapTick("arrive", NONE)
             /\ UNCHANGED <<blocked, em>>
        ELSE IF handler # NONE
        THEN /\ pc' = "enter_map"
             /\ tick' = EnterMapTick("interrupt", handler)
             /\ blocked' = IF handler \in CampaignResetHandlers
                           THEN blocked \cup {"campaign_timer"}
                           ELSE blocked
             /\ UNCHANGED em
        ELSE IF "campaign_timer" \notin blocked /\ in_coalition(f)
        THEN /\ pc' = "enter_map"
             /\ tick' = EnterMapTick("entrance", em.button)
             /\ em' = [em EXCEPT !.campaign_click = @ + 1]
             /\ blocked' = blocked \cup {"campaign_timer"}
        ELSE IF /\ em.event = "coalition_20251120"
                /\ "campaign_difficulty_timer" \notin blocked
                /\ in_coalition_20251120_difficulty_selection(f)
                /\ em.button_difficulty # NONE
        THEN /\ pc' = "enter_map"
             /\ tick' = EnterMapTick("difficulty", em.button_difficulty)
             /\ em' = [em EXCEPT !.campaign_difficulty_click = @ + 1]
             /\ blocked' = blocked \cup {"campaign_difficulty_timer"}
        ELSE IF "fleet_timer" \notin blocked /\ em.fleet_preparation \in f
        THEN IF prepared # NONE
             THEN raise(prepared)
             ELSE /\ pc' = "enter_map"
                  /\ tick' = EnterMapTick("fleet", em.fleet_preparation)
                  /\ em' = [em EXCEPT !.fleet_click = @ + 1]
                  /\ blocked' = blocked \cup {"fleet_timer", "campaign_timer"}
        ELSE /\ pc' = "enter_map"
             /\ tick' = EnterMapTick("none", NONE)
             /\ UNCHANGED <<blocked, em>>

\* one iteration of the loop of enter_map, with its screenshot
enter_map_tick ==
    /\ pc = "enter_map"
    /\ \E f \in (IF skip_first THEN {frame} ELSE EnterMapFrames) :
          /\ frame' = f
          /\ EnterMapStep(f)
    /\ skip_first' = FALSE
    /\ UNCHANGED <<destination, parent, opsi, ui_current, timeout, run, ua, uc, ue, world, cl1>>

NextEnterMap ==
    \/ EnterMapTimerReach
    \/ enter_map_call
    \/ enter_map_tick

SpecEnterMap == InitEnterMap /\ [][NextEnterMap]_vars

(***************************************************************************)
(* One call of UI.ui_additional on an arbitrary frame.                     *)
(***************************************************************************)

\* the subsets of S with at most k elements
RECURSIVE SubsetsUpTo(_, _)
SubsetsUpTo(S, k) ==
    IF k = 0 THEN {{}}
    ELSE LET prev == SubsetsUpTo(S, k - 1)
         IN  prev \cup {f \cup {e} : f \in prev, e \in S}

\* the frames a call of ui_additional can meet
AdditionalFrames == SubsetsUpTo(RuleElements, MaxVisible)

\* every pair of an element some predicate looks for and the timer throttling it
GuardTimers ==
    LET rs == AdditionalRules(TRUE)
    IN  UNION {{<<rs[i].guards[j].el, rs[i].guards[j].timer>> : j \in 1..Len(rs[i].guards)}
               : i \in 1..Len(rs)}

\* the interval timers that throttle the predicates looking for an element of f
TimersOf(f) == {p[2] : p \in {q \in GuardTimers : q[1] \in f /\ q[2] # NONE}}

\* the values of the click counter a call can start with
OpsiValues == {0, OpsiLimit - 1, OpsiLimit}

InitAdditional ==
    /\ pc = "idle"
    /\ destination = NONE
    /\ parent = NoParent
    /\ frame \in AdditionalFrames
    /\ blocked \in SUBSET TimersOf(frame)
    /\ opsi \in OpsiValues
    /\ skip_first = FALSE
    /\ ui_current = NONE
    /\ timeout = NoTimeout
    /\ tick = NoTick
    /\ run = NoRun
    /\ ua = NoCall
    /\ uc = NoCall
    /\ em = NoCall
    /\ ue = NoCall
    /\ world = NoCall
    /\ cl1 = NoCall

\* the frames the screenshot of the WITHDRAW rule can show
AdditionalResample(f, b) ==
    IF "WITHDRAW" \in f /\ "WITHDRAW" \notin b THEN AdditionalFrames ELSE {f}

\* UI.ui_additional(get_ship) called on the cached frame
ui_additional_call ==
    /\ pc = "idle"
    /\ \E get_ship \in BOOLEAN : \E f2 \in AdditionalResample(frame, blocked) :
       \E r \in {ui_additional(frame, blocked, opsi, get_ship, f2, {})} :
          /\ ua' = [state |-> "done", get_ship |-> get_ship, frame |-> frame,
                    blocked |-> blocked, handled |-> r.handled, click |-> r.click,
                    rule |-> r.rule, matched |-> r.matched, screens |-> r.screens]
          /\ frame' = r.frame
          /\ blocked' = r.blocked
          /\ opsi' = r.opsi
          /\ pc' = IF r.raised THEN "raised" ELSE "returned"
    /\ UNCHANGED <<destination, parent, skip_first, ui_current, timeout, tick, run, uc, em, ue, world, cl1>>

NextAdditional == ui_additional_call

SpecAdditional == InitAdditional /\ [][NextAdditional]_vars

(***************************************************************************)
(* UI.ui_click and UI.ui_back.  Time is counted in half seconds: a clock   *)
(* holds the number of half-second boundaries passed since it was set, so  *)
(* the time really elapsed lies strictly between that number minus one and *)
(* that number plus one, and is more than zero.                            *)
(***************************************************************************)

\* the largest number of clicks of the target the model tells apart
MaxClicks == 2

\* seconds as half seconds; also `wait // 0.5` for a whole number of seconds
HalfSeconds(w) == 2 * w

\* the values of the arguments confirm_wait and retry_wait, in seconds
ConfirmWaits == {1}

RetryWaits == {1}

\* Timer(limit, count): not started, so the limit is long past, and
\* _reach_count = count
Timer(limit, count) ==
    [limit |-> limit, count |-> count, elapsed |-> limit + 1, n |-> count]

\* Timer.reset
reset(t) == [t EXCEPT !.elapsed = 0, !.n = 0]

\* Timer.start: sets the timer unless it was started
start(t) == IF t.elapsed > t.limit /\ t.n = t.count THEN reset(t) ELSE t

\* Timer.reached, first half: _reach_count += 1 (told apart up to count + 1)
counted(t) == [t EXCEPT !.n = Min(@ + 1, t.count + 1)]

\* Timer.reached, second half, on a timer that has counted this call: the
\* values `time() - _current > limit and _reach_count > count` can have
reached(t) ==
    IF t.n <= t.count \/ t.elapsed < t.limit THEN {FALSE}
    ELSE IF t.elapsed > t.limit \/ t.limit = 0 THEN {TRUE}
    ELSE {TRUE, FALSE}

\* half a second passes on a timer
later(t) == [t EXCEPT !.elapsed = Min(@ + 1, t.limit + 1)]

\* what the screen can show during ui_click: the check button (the arrival
\* condition), the appear button, and something the hook `additional`
\* handles when it is called
ClickElements == {"CHECK_BUTTON", "APPEAR_BUTTON", "ADDITIONAL"}

\* UI.ui_process_check_button on frame f
ui_process_check_button(f) == "CHECK_BUTTON" \in f

InitClick ==
    /\ pc = "idle"
    /\ destination = NONE
    /\ parent = NoParent
    /\ frame \in SUBSET ClickElements
    /\ blocked = {}
    /\ opsi = 0
    /\ skip_first = FALSE
    /\ ui_current = NONE
    /\ timeout = NoTimeout
    /\ tick = NoTick
    /\ run = NoRun
    /\ ua = NoCall
    /\ uc = NoCall
    /\ em = NoCall
    /\ ue = NoCall
    /\ world = NoCall
    /\ cl1 = NoCall

\* the locals of ui_click after line 180; screen is what the application
\* shows now, held the half seconds for which it has shown the check button
\* without a break (as much as the model tells apart when the call begins)
ClickLocals(via, additional, confirm_wait, retry_wait, skip, screen) ==
    LET wait == IF additional THEN confirm_wait ELSE 0
    IN  [state |-> "loop", via |-> via, additional |-> additional,
         confirm_wait |-> HalfSeconds(confirm_wait),
         click_timer |-> Timer(HalfSeconds(retry_wait), HalfSeconds(retry_wait)),
         confirm_timer |-> start(Timer(HalfSeconds(wait), HalfSeconds(wait))),
         clicks |-> 0, screen |-> screen,
         held |-> IF "CHECK_BUTTON" \in screen THEN HalfSeconds(confirm_wait) ELSE 0]

\* UI.ui_click(click_button, check_button, additional, confirm_wait, retry_wait,
\* skip_first_screenshot), up to the loop
ui_click_call ==
    /\ pc \in {"idle", "returned"}
    /\ \E additional \in BOOLEAN : \E cw \in ConfirmWaits : \E rw \in RetryWaits :
       \E skip \in BOOLEAN : \E screen \in SUBSET ClickElements :
          /\ uc' = ClickLocals("ui_click", additional, cw, rw, skip, screen)
          /\ skip_first' = skip
    /\ pc' = "ui_click"
    /\ tick' = NoTick
    /\ UNCHANGED <<destination, parent, frame, blocked, opsi, ui_current, timeout, run, ua, em, ue, world, cl1>>

\* UI.ui_back(check_button, retry_wait, skip_first_screenshot): ui_click on
\* BACK_ARROW with the defaults of additional and confirm_wait
ui_back ==
    /\ pc \in {"idle", "returned"}
    /\ \E rw \in RetryWaits :
       \E skip \in BOOLEAN : \E screen \in SUBSET ClickElements :
          /\ uc' = ClickLocals("ui_back", FALSE, 1, rw, skip, screen)
          /\ skip_first' = skip
    /\ pc' = "ui_click"
    /\ tick' = NoTick
    /\ UNCHANGED <<destination, parent, frame, blocked, opsi, ui_current, timeout, run, ua, em, ue, world, cl1>>

\* half a second passes
Pass ==
    /\ pc = "ui_click"
    /\ uc' = [uc EXCEPT !.click_timer = later(@), !.confirm_timer = later(@),
                        !.held = IF "CHECK_BUTTON" \in uc.screen
                                 THEN Min(@ + 1, uc.confirm_wait) ELSE 0]
    /\ UNCHANGED <<pc, destination, parent, frame, blocked, opsi, skip_first, ui_current,
                   timeout, tick, run, ua, em, ue, world, cl1>>

\* the application shows something else
ScreenChange ==
    /\ pc = "ui_click"
    /\ \E s \in (SUBSET ClickElements) \ {uc.screen} :
          uc' = [uc EXCEPT !.screen = s,
                           !.held = IF "CHECK_BUTTON" \in uc.screen /\ "CHECK_BUTTON" \in s
                                    THEN @ ELSE 0]
    /\ UNCHANGED <<pc, destination, parent, frame, blocked, opsi, skip_first, ui_current,
                   timeout, tick, run, ua, em, ue, world, cl1>>

ClickTick(kind, click) ==
    [op |-> "ui_click", kind |-> kind, click |-> click, page |-> NONE, fresh |-> ~skip_first]

\* ui_click without `else: confirm_timer.reset()`
ClickStep_NoConfirmReset(f) ==
    LET check   == ui_process_check_button(f)
        confirm == counted(uc.confirm_timer)
        click   == counted(uc.click_timer)
    IN  \E accept \in (IF check THEN reached(confirm) ELSE {FALSE}) :
           IF accept
           THEN /\ pc' = "returned"
                /\ uc' = [uc EXCEPT !.state = "accepted", !.confirm_timer = confirm]
                /\ tick' = ClickTick("accept", NONE)
           ELSE /\ pc' = "ui_click"
                /\ \E due \in reached(click) :
                      IF due /\ "APPEAR_BUTTON" \in f
                      THEN /\ uc' = [uc EXCEPT !.confirm_timer = confirm,
                                               !.click_timer = reset(click),
                                               !.clicks = Min(@ + 1, MaxClicks)]
                           /\ tick' = ClickTick("click", "click_button")
                      ELSE /\ uc' = [uc EXCEPT !.confirm_timer = confirm,
                                               !.click_timer = click]
                           /\ tick' = ClickTick(IF uc.additional /\ "ADDITIONAL" \in f
                                                 THEN "interrupt" ELSE "none", NONE)

\* ui_click without the retry timer: the target is clicked on every
\* iteration that sees the trigger
ClickStep_NoRetryTimer(f) ==
    LET check   == ui_process_check_button(f)
        confirm == IF check THEN counted(uc.confirm_timer) ELSE reset(uc.confirm_timer)
        click   == counted(uc.click_timer)
    IN  \E accept \in (IF check THEN reached(confirm) ELSE {FALSE}) :
           IF accept
           THEN /\ pc' = "returned"
                /\ uc' = [uc EXCEPT !.state = "accepted", !.confirm_timer = confirm]
                /\ tick' = ClickTick("accept", NONE)
           ELSE /\ pc' = "ui_click"
                /\ IF "APPEAR_BUTTON" \in f
                   THEN /\ uc' = [uc EXCEPT !.confirm_timer = confirm,
                                            !.click_timer = reset(click),
                                            !.clicks = Min(@ + 1, MaxClicks)]
                        /\ tick' = ClickTick("click", "click_button")
                   ELSE /\ uc' = [uc EXCEPT !.confirm_timer = confirm,
                                            !.click_timer = click]
                        /\ tick' = ClickTick(IF uc.additional /\ "ADDITIONAL" \in f
                                              THEN "interrupt" ELSE "none", NONE)

\* one iteration of the loop of ui_click on frame f
ClickStep(f) ==
    LET check   == ui_process_check_button(f)
        confirm == IF check THEN counted(uc.confirm_timer) ELSE reset(uc.confirm_timer)
        click   == counted(uc.click_timer)
    IN  \E accept \in (IF check THEN reached(confirm) ELSE {FALSE}) :
           IF accept
           THEN /\ pc' = "returned"
                /\ uc' = [uc EXCEPT !.state = "accepted", !.confirm_timer = confirm]
                /\ tick' = ClickTick("accept", NONE)
           ELSE /\ pc' = "ui_click"
                /\ \E due \in reached(click) :
                      IF due /\ "APPEAR_BUTTON" \in f
                      THEN /\ uc' = [uc EXCEPT !.confirm_timer = confirm,
                                               !.click_timer = reset(click),
                                               !.clicks = Min(@ + 1, MaxClicks)]
                           /\ tick' = ClickTick("click", "click_button")
                      ELSE /\ uc' = [uc EXCEPT !.confirm_timer = confirm,
                                               !.click_timer = click]
                           /\ tick' = ClickTick(IF uc.additional /\ "ADDITIONAL" \in f
                                                 THEN "interrupt" ELSE "none", NONE)

\* one iteration of the loop of ui_click, with its screenshot
ui_click_tick ==
    /\ pc = "ui_click"
    /\ \E f \in (IF skip_first THEN {frame} ELSE {uc.screen}) :
          /\ frame' = f
          /\ ClickStep(f)
    /\ skip_first' = FALSE
    /\ UNCHANGED <<destination, parent, blocked, opsi, ui_current, timeout, run, ua, em, ue, world, cl1>>

NextClick ==
    \/ Pass
    \/ ScreenChange
    \/ ui_click_call
    \/ ui_back
    \/ ui_click_tick

SpecClick == InitClick /\ [][NextClick]_vars

\* the loop keeps running and time keeps passing
FairSpecClick ==
    /\ SpecClick
    /\ WF_vars(ui_click_tick)
    /\ WF_vars(Pass)
    /\ WF_vars(ui_click_call \/ ui_back)





(***************************************************************************)
(* CoalitionUI.coalition_map_exit (src/module/coalition/ui.py).            *)
(***************************************************************************)

\* the events coalition_map_exit is followed for
MapExitEvents == {"coalition_20230323", "coalition_20251120"}

\* the buttons the loop of coalition_map_exit matches with interval=3, in
\* the order of its four cases, for the fleet-preparation button fp
MapExitCases(fp) ==
    << "BATTLE_PREPARATION", fp, "DAL_DIFFICULTY_EXIT", "Light_Shadow_Fashion_EXIT" >>

\* the button a case clicks when its button is matched
MapExitClick(button) ==
    CASE button = "BATTLE_PREPARATION" -> "BACK_ARROW"
      [] button \in {"FROSTFALL_FLEET_PREPARATION", "DAL_FLEET_PREPARATION"}
            -> "NEONCITY_PREPARATION_EXIT"
      [] OTHER -> button

\* the elements of a frame that are followed during coalition_map_exit
MapExitElements ==
    { "COALITION_CHECK", CheckButton("page_main"), "BATTLE_PREPARATION",
      "FROSTFALL_FLEET_PREPARATION", "DAL_FLEET_PREPARATION",
      "DAL_DIFFICULTY_EXIT", "Light_Shadow_Fashion_EXIT" }

MapExitFrames == {f \in SUBSET MapExitElements : Cardinality(f) <= MaxVisible}

InitMapExit ==
    /\ pc = "idle"
    /\ destination = NONE
    /\ parent = NoParent
    /\ frame \in MapExitFrames
    /\ blocked \in SUBSET {"BATTLE_PREPARATION", "DAL_DIFFICULTY_EXIT"}
    /\ opsi = 0
    /\ skip_first = FALSE
    /\ ui_current = NONE
    /\ timeout = NoTimeout
    /\ tick = NoTick
    /\ run = NoRun
    /\ ua = NoCall
    /\ uc = NoCall
    /\ em = NoCall
    /\ ue = NoCall
    /\ world = NoCall
    /\ cl1 = NoCall

MapExitTick(kind, click) ==
    [op |-> "coalition_map_exit", kind |-> kind, click |-> click, page |-> NONE,
     fresh |-> TRUE]

\* CoalitionUI.coalition_map_exit(event), up to the loop
coalition_map_exit_call ==
    /\ pc \in {"idle", "returned"}
    /\ \E event \in MapExitEvents :
          em' = [state |-> "exit", event |-> event,
                 fleet_preparation |-> coalition_get_fleet_preparation(event)]
    /\ pc' = "map_exit"
    /\ tick' = MapExitTick(NONE, NONE)
    /\ UNCHANGED <<destination, parent, frame, blocked, opsi, skip_first, ui_current,
                   timeout, run, ua, uc, ue, world, cl1>>

\* time passes: the 3 seconds of one of the interval timers have gone by
MapExitTimerReach ==
    /\ pc \in {"idle", "returned", "map_exit"}
    /\ \E t \in blocked : blocked' = blocked \ {t}
    /\ UNCHANGED <<pc, destination, parent, frame, opsi, skip_first, ui_current,
                   timeout, tick, run, ua, uc, em, ue, world, cl1>>

\* the first case of the loop whose button is on frame f with its interval
\* timer reached (the timers in b are still running), or NONE
MapExitMatch(f, b, fp) == FirstIn(MapExitCases(fp), f \ b)

\* one iteration of the loop of coalition_map_exit on frame f
MapExitStep(f) ==
    LET button == MapExitMatch(f, blocked, em.fleet_preparation)
    IN  IF in_coalition(f)
        THEN /\ pc' = "returned"
             /\ tick' = MapExitTick("in_coalition", NONE)
             /\ UNCHANGED blocked
        ELSE IF ui_page_appear("page_main", f)
        THEN /\ pc' = "returned"
             /\ tick' = MapExitTick("is_in_main", NONE)
             /\ UNCHANGED blocked
        ELSE IF button # NONE
        THEN /\ pc' = "map_exit"
             /\ tick' = MapExitTick("click", MapExitClick(button))
             /\ blocked' = blocked \cup {button}
        ELSE /\ pc' = "map_exit"
             /\ tick' = MapExitTick("none", NONE)
             /\ UNCHANGED blocked

\* one iteration of the loop of coalition_map_exit, with the screenshot of
\* self.loop()
coalition_map_exit_tick ==
    /\ pc = "map_exit"
    /\ \E f \in MapExitFrames :
          /\ frame' = f
          /\ MapExitStep(f)
    /\ UNCHANGED <<destination, parent, opsi, skip_first, ui_current, timeout, run,
                   ua, uc, em, ue, world, cl1>>

NextMapExit ==
    \/ MapExitTimerReach
    \/ coalition_map_exit_call
    \/ coalition_map_exit_tick

SpecMapExit == InitMapExit /\ [][NextMapExit]_vars

(***************************************************************************)
(* UI.ui_ensure_index.  The list on the screen has an index that a click   *)
(* of next_button raises by one and a click of prev_button lowers by one,  *)
(* before the next screenshot; `letter` reads the index off device.image.  *)
(***************************************************************************)

\* the largest index of the list that is followed as a target
MaxIndex == 3

Indexes == 0 .. MaxIndex

Abs(n) == IF n < 0 THEN 0 - n ELSE n

\* world.index is the index of the list, world.shown the index on
\* device.image (the last screenshot, taken before the call)
InitIndex ==
    /\ pc = "idle"
    /\ destination = NONE
    /\ parent = NoParent
    /\ frame = {}
    /\ blocked = {}
    /\ opsi = 0
    /\ skip_first = FALSE
    /\ ui_current = NONE
    /\ timeout = NoTimeout
    /\ tick = NoTick
    /\ run = NoRun
    /\ ua = NoCall
    /\ uc = NoCall
    /\ em = NoCall
    /\ ue = NoCall
    /\ \E i \in Indexes : \E shown \in Indexes :
          world = [state |-> "list", index |-> i, shown |-> shown]
    /\ cl1 = NoCall

IndexTick(kind, click) ==
    [op |-> "ui_ensure_index", kind |-> kind, click |-> click, page |-> NONE,
     fresh |-> ~skip_first]

\* UI.ui_ensure_index(index, letter, next_button, prev_button,
\* skip_first_screenshot, fast), up to the loop
ui_ensure_index_call ==
    /\ pc \in {"idle", "returned"}
    /\ \E index \in Indexes : \E fast \in BOOLEAN : \E skip \in BOOLEAN :
          /\ ue' = [state |-> "index", index |-> index, fast |-> fast,
                    retry |-> Timer(HalfSeconds(1), 2), current |-> -1, n |-> 0]
          /\ skip_first' = skip
    /\ pc' = "ensure_index"
    /\ tick' = NoTick
    /\ UNCHANGED <<destination, parent, frame, blocked, opsi, ui_current, timeout, run,
                   ua, uc, em, world, cl1>>

\* half a second passes on the timer `retry`
IndexPass ==
    /\ pc = "ensure_index"
    /\ ue' = [ue EXCEPT !.retry = later(@)]
    /\ UNCHANGED <<pc, destination, parent, frame, blocked, opsi, skip_first, ui_current,
                   timeout, tick, run, ua, uc, em, world, cl1>>

\* ui_ensure_index clicking next_button whatever the sign of diff
IndexStep_AlwaysNext(current) ==
    LET diff   == ue.index - current
        retry  == counted(ue.retry)
        button == "next_button"
        n      == IF ue.fast THEN Abs(diff) ELSE 1
    IN  IF diff = 0
        THEN /\ pc' = "returned"
             /\ tick' = IndexTick("arrive", NONE)
             /\ ue' = [ue EXCEPT !.current = current, !.n = 0]
             /\ world' = [world EXCEPT !.shown = current]
        ELSE /\ pc' = "ensure_index"
             /\ \E due \in reached(retry) :
                   IF due
                   THEN /\ tick' = IndexTick("click", button)
                        /\ ue' = [ue EXCEPT !.current = current, !.n = n,
                                            !.retry = reset(retry)]
                        /\ world' = [world EXCEPT
                                        !.shown = current,
                                        !.index = Min(@ + n, 2 * MaxIndex)]
                   ELSE /\ tick' = IndexTick("none", NONE)
                        /\ ue' = [ue EXCEPT !.current = current, !.n = 0,
                                            !.retry = retry]
                        /\ world' = [world EXCEPT !.shown = current]

\* one iteration of the loop of ui_ensure_index that read `current`
IndexStep(current) ==
    LET diff   == ue.index - current
        retry  == counted(ue.retry)
        button == IF diff > 0 THEN "next_button" ELSE "prev_button"
        n      == IF ue.fast THEN Abs(diff) ELSE 1
    IN  IF diff = 0
        THEN /\ pc' = "returned"
             /\ tick' = IndexTick("arrive", NONE)
             /\ ue' = [ue EXCEPT !.current = current, !.n = 0]
             /\ world' = [world EXCEPT !.shown = current]
        ELSE /\ pc' = "ensure_index"
             /\ \E due \in reached(retry) :
                   IF due
                   THEN /\ tick' = IndexTick("click", button)
                        /\ ue' = [ue EXCEPT !.current = current, !.n = n,
                                            !.retry = reset(retry)]
                        /\ world' = [world EXCEPT
                                        !.shown = current,
                                        !.index = IF diff > 0 THEN @ + n ELSE @ - n]
                   ELSE /\ tick' = IndexTick("none", NONE)
                        /\ ue' = [ue EXCEPT !.current = current, !.n = 0,
                                            !.retry = retry]
                        /\ world' = [world EXCEPT !.shown = current]

\* one iteration of the loop of ui_ensure_index, with its screenshot
ui_ensure_index_tick ==
    /\ pc = "ensure_index"
    /\ IndexStep(IF skip_first THEN world.shown ELSE world.index)
    /\ skip_first' = FALSE
    /\ UNCHANGED <<destination, parent, frame, blocked, opsi, ui_current, timeout, run,
                   ua, uc, em, cl1>>

NextIndex ==
    \/ IndexPass
    \/ ui_ensure_index_call
    \/ ui_ensure_index_tick

SpecIndex == InitIndex /\ [][NextIndex]_vars

\* the loop keeps iterating and time keeps passing
FairSpecIndex ==
    /\ SpecIndex
    /\ WF_vars(ui_ensure_index_tick)
    /\ WF_vars(IndexPass)

(***************************************************************************)
(* Cl1DataSubmitter (src/module/statistics/cl1_data_submitter.py):         *)
(* auto_submit and the generator auto_submit_daemon.  cl1.now is           *)
(* time.time(), which moves in steps of half the submit interval.          *)
(***************************************************************************)

\* Cl1DataSubmitter._submit_interval, in seconds
SubmitInterval == 3600

\* the clock is followed for this many steps
MaxElapse == 4

\* one step of the clock, in seconds
ClockStep == SubmitInterval \div 2

\* how one call of auto_submit can go: should_submit is false; collect_data
\* or calculate_metrics raises; battle_count is 0; the POST is answered with
\* 200, with another status, times out, or fails with a RequestException
AutoSubmitKinds ==
    {"not_due", "collect_error", "no_data", "post_ok", "post_status", "post_timeout",
     "post_error"}

\* the calls of auto_submit in which requests.post is called
PostKinds == {"post_ok", "post_status", "post_timeout", "post_error"}

\* a new Cl1DataSubmitter (_last_submit_time = 0) and a generator made by
\* auto_submit_daemon() that has not been resumed yet; time.time() is far
\* more than the interval
NewSubmitter ==
    [state |-> "on", now |-> SubmitInterval, last |-> 0, post_at |-> -1, flip |-> FALSE,
     result |-> FALSE, gen |-> "created", calls |-> 0, yields |-> 0]

InitCl1 ==
    /\ pc = "idle"
    /\ destination = NONE
    /\ parent = NoParent
    /\ frame = {}
    /\ blocked = {}
    /\ opsi = 0
    /\ skip_first = FALSE
    /\ ui_current = NONE
    /\ timeout = NoTimeout
    /\ tick = NoTick
    /\ run = NoRun
    /\ ua = NoCall
    /\ uc = NoCall
    /\ em = NoCall
    /\ ue = NoCall
    /\ world = NoCall
    /\ cl1 = NewSubmitter

\* Cl1DataSubmitter.should_submit
should_submit(c) == c.now - c.last >= SubmitInterval

\* Cl1DataSubmitter.submit_data: True only when the POST is answered with 200
submit_data(kind) == kind = "post_ok"

\* Cl1DataSubmitter.auto_submit on the submitter c, going the way `kind`:
\* the submitter afterwards.  post_at records the time of the last POST and
\* flip changes with every call
auto_submit(c, kind) ==
    LET success == kind \in PostKinds /\ submit_data(kind)
    IN  [c EXCEPT !.last = IF success THEN c.now ELSE @,
                  !.post_at = IF kind \in PostKinds THEN c.now ELSE @,
                  !.flip = ~@,
                  !.result = success]

\* the ways a call of auto_submit on c can go
AutoSubmitWays(c) == IF should_submit(c) THEN AutoSubmitKinds \ {"not_due"} ELSE {"not_due"}

Cl1Tick(op, kind) ==
    [op |-> op, kind |-> kind, click |-> NONE, page |-> NONE, fresh |-> FALSE]

Cl1Rest == <<pc, destination, parent, frame, blocked, opsi, skip_first, ui_current,
             timeout, run, ua, uc, em, ue, world>>

\* time passes
Cl1Clock ==
    /\ cl1.state = "on"
    /\ cl1.now < SubmitInterval + MaxElapse * ClockStep
    /\ cl1' = [cl1 EXCEPT !.now = @ + ClockStep]
    /\ UNCHANGED <<tick, Cl1Rest>>

\* the program calls auto_submit itself, while the generator is not running
auto_submit_call ==
    /\ cl1.state = "on"
    /\ cl1.gen \in {"created", "suspended"}
    /\ \E kind \in AutoSubmitWays(cl1) :
          /\ cl1' = auto_submit(cl1, kind)
          /\ tick' = Cl1Tick("auto_submit", kind)
    /\ UNCHANGED Cl1Rest

\* the scheduler resumes the generator: next(gen)
daemon_resume ==
    /\ cl1.state = "on"
    /\ cl1.gen \in {"created", "suspended"}
    /\ cl1' = [cl1 EXCEPT !.gen = "running", !.calls = 0, !.yields = 0]
    /\ tick' = Cl1Tick("auto_submit_daemon", "resume")
    /\ UNCHANGED Cl1Rest

\* auto_submit_daemon calling auto_submit again, without a yield, until a
\* call has submitted
auto_submit_daemon_body_UntilSubmitted ==
    /\ cl1.state = "on"
    /\ cl1.gen = "running"
    /\ \E kind \in AutoSubmitWays(cl1) :
          /\ cl1' = [auto_submit(cl1, kind) EXCEPT
                        !.gen = IF kind \in {"post_ok", "not_due"} THEN "yield" ELSE "running",
                        !.calls = Min(@ + 1, 2)]
          /\ tick' = Cl1Tick("auto_submit_daemon", kind)
    /\ UNCHANGED Cl1Rest

\* auto_submit_daemon, from `while True` to the yield: auto_submit in a try
\* that catches Exception
auto_submit_daemon_body ==
    /\ cl1.state = "on"
    /\ cl1.gen = "running"
    /\ \E kind \in AutoSubmitWays(cl1) :
          /\ cl1' = [auto_submit(cl1, kind) EXCEPT !.gen = "yield", !.calls = Min(@ + 1, 2)]
          /\ tick' = Cl1Tick("auto_submit_daemon", kind)
    /\ UNCHANGED Cl1Rest

\* auto_submit_daemon: the yield hands control back to the scheduler
auto_submit_daemon_yield ==
    /\ cl1.state = "on"
    /\ cl1.gen = "yield"
    /\ cl1' = [cl1 EXCEPT !.gen = "suspended", !.yields = Min(@ + 1, 2)]
    /\ tick' = Cl1Tick("auto_submit_daemon", "yield")
    /\ UNCHANGED Cl1Rest

NextCl1 ==
    \/ Cl1Clock
    \/ auto_submit_call
    \/ daemon_resume
    \/ auto_submit_daemon_body
    \/ auto_submit_daemon_yield

SpecCl1 == InitCl1 /\ [][NextCl1]_vars

(***************************************************************************)
(* Properties of the navigation engine.                                    *)
(***************************************************************************)

\* the click the interrupt chain issues on frame f with the timers b
OverlayClick(f, b, n) ==
    IF n >= OpsiLimit THEN NONE ELSE ui_additional(f, b, n, TRUE, f, {}).click

\* the edge buttons from page p to the destination along the parent chain
RECURSIVE PathButtons(_, _, _)
PathButtons(p, dest, par) ==
    IF ui_page_appear(dest, {CheckButton(p)}) THEN <<>>
    ELSE IF par[p] = NULL THEN <<NONE>>
    ELSE <<Links(p)[par[p]]>> \o PathButtons(par[p], dest, par)

\* A step of the loop of ui_goto.  While the loop runs the only other step is
\* TimerReach, which takes a timer out of `blocked` and changes nothing else;
\* an iteration of the loop never takes a timer out.
GotoStep == pc = "goto" /\ blocked \subseteq blocked'

\* A step of the loop of ui_get_current_page: neither TimerReach nor
\* TimeoutLate, which alone turns timeout.late on.
PageLoopStep == pc = "page" /\ blocked \subseteq blocked' /\ (timeout'.late => timeout.late)

\* a ui_goto call has ended, by return or by exception
GotoEnded == pc \in {"returned", "raised"} /\ tick.op = "ui_goto"

\* C1: after any ui_goto call has ended, by return on arrival or by a fatal
\* exception, every page's parent pointer is null.
C1_ParentsClearedOnEveryExit == GotoEnded => parent = NoParent

\* C3: on a tick of ui_goto at which the destination's check matches, no
\* click is issued and the call returns; a call started on its destination
\* returns on its first tick with no click at all.
C3_ArrivalIssuesNoClick ==
    [][ (GotoStep /\ ui_page_appear(destination, frame'))
        => /\ tick'.click = NONE
           /\ tick'.kind = "arrive"
           /\ pc' = "returned"
           /\ run'.clicked = run.clicked
           /\ (run.onDest /\ skip_first => ~run'.clicked) ]_vars

C3_Witness ==
    /\ pc = "returned"
    /\ tick.op = "ui_goto"
    /\ tick.kind = "arrive"
    /\ run.onDest
    /\ ~run.clicked

\* C5 as stated: on a tick of ui_goto where an overlay rule matches the frame
\* while a page of the parent chain is recognized, the overlay's click is
\* issued on that tick instead of the page's edge click.
C5_OverlayBeforeEdge ==
    [][ ( /\ GotoStep
          /\ ~ui_page_appear(destination, frame')
          /\ GotoMatch(frame', blocked, parent) # NONE
          /\ OverlayClick(frame', blocked, opsi) # NONE )
        => /\ tick'.kind = "interrupt"
           /\ tick'.click = OverlayClick(frame', blocked, opsi) ]_vars

\* C5 amended: on such a tick the page's edge click is issued and the overlay
\* is left alone; an overlay click is issued only on a tick on which the
\* destination does not match and no page of the parent chain is recognized.
C5_EdgeBeforeOverlay ==
    [][ GotoStep
        => /\ ( /\ ~ui_page_appear(destination, frame')
                /\ GotoMatch(frame', blocked, parent) # NONE )
              => /\ tick'.kind = "edge"
                 /\ tick'.click = Links(GotoMatch(frame', blocked, parent))
                                       [parent[GotoMatch(frame', blocked, parent)]]
           /\ tick'.kind = "interrupt"
              => /\ ~ui_page_appear(destination, frame')
                 /\ GotoMatch(frame', blocked, parent) = NONE
                 /\ tick'.click = OverlayClick(frame', blocked, opsi) ]_vars

C5_Witness ==
    /\ pc = "goto"
    /\ tick.kind = "edge"
    /\ "RESET_TICKET_POPUP" \in frame
    /\ "RESET_TICKET_POPUP" \notin blocked
    /\ opsi < OpsiLimit

\* C6: when the first frame shows one page, every edge click takes effect
\* before the next sample and no overlay shows, the clicks of a ui_goto call
\* that has returned are exactly the edge buttons of the successive pages
\* from the first page to the destination, in path order, and nothing else.
C6_ChainClicksInPathOrder ==
    (pc = "returned" /\ tick.op = "ui_goto" /\ run.ideal)
        => run.log = PathButtons(run.start, destination,
                                 init_connection(destination, NoParent))

C6_Witness ==
    /\ pc = "returned"
    /\ tick.op = "ui_goto"
    /\ run.ideal
    /\ run.start = "page_main"
    /\ destination = "page_sp"
    /\ run.log = <<"MAIN_GOTO_EVENT", "EVENT_GOTO_SP">>

\* C9: on a tick of ui_goto or ui_get_current_page where no declared page is
\* recognized and both RESET_TICKET_POPUP and GOTO_MAIN are visible, a click
\* that is issued is the reset-ticket dismissal, not the go-home click.
C9_ResetTicketBeforeGoHome ==
    [][ ( /\ GotoStep \/ PageLoopStep
          /\ PageMatch(frame') = NONE
          /\ {"RESET_TICKET_POPUP", "GOTO_MAIN"} \subseteq frame'
          /\ tick'.click # NONE )
        => tick'.click = "RESET_TICKET_POPUP" ]_vars

\* C10: every edge click of ui_goto and of ui_main_appear_then_click is a
\* link button of a page whose check button is on the frame of that tick;
\* in ui_goto it is the link to that page's parent.
C10_EdgeClickOfRecognizedPage ==
    tick.kind = "edge"
        => /\ tick.page \in Destinations
           /\ CheckButton(tick.page) \in frame
           /\ \E q \in DOMAIN Links(tick.page) :
                 /\ tick.click = Links(tick.page)[q]
                 /\ tick.op = "ui_goto" => q = parent[tick.page]
           /\ tick.op = "ui_main_appear_then_click"
                 => tick.page \in {"page_main", "page_main_white"}

C10_Witness ==
    /\ tick.op = "ui_goto"
    /\ tick.kind = "edge"
    /\ tick.page = "page_event"
    /\ Cardinality(frame) = 2


(***************************************************************************)
(* Properties of CoalitionUI.enter_map.                                    *)
(***************************************************************************)

\* C2: in enter_map at most 5 clicks of each counted target (stage entrance,
\* difficulty button, fleet-preparation button) are issued, whatever the
\* interrupt handlers do in between: a 6th click of a target never happens,
\* RequestHumanTakeover is raised after the 5th
C2_AtMostFiveClicks ==
    em # NoCall =>
        /\ em.campaign_click <= ClickLimit
        /\ em.campaign_difficulty_click <= ClickLimit
        /\ em.fleet_click <= ClickLimit


(***************************************************************************)
(* Properties of the interrupt chain.                                      *)
(***************************************************************************)

\* the chain for get_ship=True and for get_ship=False
AdditionalRulesShip == AdditionalRules(TRUE)

AdditionalRulesNoShip == AdditionalRules(FALSE)

ChainOf(get_ship) == IF get_ship THEN AdditionalRulesShip ELSE AdditionalRulesNoShip

\* the rules of the chain whose predicate matches frame f with the timers b,
\* as positions in declaration order
Matching(get_ship, f, b) ==
    {i \in 1..Len(ChainOf(get_ship)) : FirstGuard(ChainOf(get_ship)[i], f, b) # 0}

\* C4: in one call of ui_additional, when two or more rules match the
\* current frame, the only click the call issues is the one of the first
\* matching rule in declaration order: the action of a later matching rule
\* is not executed, and the rules are all evaluated on that one frame
C4_FirstMatchingRuleActs ==
    (pc = "returned" /\ ua # NoCall) =>
        \A m \in {Matching(ua.get_ship, ua.frame, ua.blocked)} :
           Cardinality(m) >= 2 =>
              \A first \in {i \in m : \A j \in m : i <= j} :
                 /\ ua.screens = 0
                 /\ ua.handled => ua.rule = ChainOf(ua.get_ship)[first].id


(***************************************************************************)
(* Properties of UI.ui_click.                                              *)
(***************************************************************************)

\* C7: ui_click called with confirmation delay confirm_wait accepts the
\* arrival condition (seen on a screenshot of its own) only when the
\* condition has held without a break for confirm_wait, counted from the
\* moment it started to hold: a condition that has held for less is not
\* accepted
C7_AcceptedOnlyAfterConfirmWait ==
    (pc = "returned" /\ uc # NoCall /\ tick.fresh) => uc.held >= uc.confirm_wait

\* C8: every call of ui_click or ui_back ends: when the arrival condition
\* never becomes true the call still ends (by a fatal condition, after a
\* bounded number of clicks)
C8_ClickTerminates ==
    <>(\/ pc \in {"returned", "raised"}
       \/ (pc = "ui_click" /\ "CHECK_BUTTON" \in uc.screen))


(***************************************************************************)
(* Properties of UI.ui_ensure.                                             *)
(***************************************************************************)

\* C11: ui_ensure returns True only when a navigation was performed, that
\* is when its ui_goto issued a click, and returns False only when the
\* frame shows the destination
C11_TrueIffNavigated ==
    (ue # NoCall /\ ue.state = "done") =>
        /\ ue.result => run.clicked
        /\ ~ue.result => ui_page_appear(ue.destination, frame)


(***************************************************************************)
(* Properties of the loops: timeouts and termination.                      *)
(***************************************************************************)

\* C12: while ui_goto runs on an application that shows a page without a
\* check button, with no overlay now or later (so no declared page matches
\* and no interrupt rule handles anything on any frame), the call eventually
\* raises GamePageUnknownError instead of sampling for ever
C12_GotoRaisesOnUnknownPage ==
    (/\ pc = "goto"
     /\ world.page = "page_unknown"
     /\ world.overlay = NONE
     /\ world.budget = 0)
        ~> (pc = "raised" /\ tick.kind = "GamePageUnknownError")

\* C13: every call of ui_get_current_page ends, by returning a page or by
\* raising, whatever the application shows and however it answers clicks
C13_CurrentPageTerminates ==
    (pc = "page") ~> (pc \in {"returned", "raised"})

\* the parent pointers Page.init_connection(dest) sets from a cleared graph
ParentsToward == [dest \in Destinations |-> init_connection(dest, NoParent)]

\* the routing choice as a function of the page graph, the destination, the
\* visible elements and the interval timers alone: no click when the
\* destination shows; otherwise the link toward its parent of the first page,
\* in declaration order, that lies on a path to the destination and whose
\* check button is visible with its timer reached; NONE when there is none
Route(dest, f, b) ==
    LET chain == ParentsToward[dest]
        seen(i) == /\ chain[PageOrder[i]] # NULL
                   /\ CheckButton(PageOrder[i]) \in f \ ({NONE} \cup b)
        firstSeen == {i \in 1..Len(PageOrder) :
                         seen(i) /\ \A j \in 1..(i - 1) : ~seen(j)}
    IN  IF ui_page_appear(dest, f) \/ firstSeen = {} THEN NONE
        ELSE LET pg == PageOrder[CHOOSE i \in firstSeen : TRUE]
             IN  Links(pg)[chain[pg]]

\* C14: in every iteration of ui_goto the edge click is Route of the
\* destination, the frame of the iteration and the timers before it, and an
\* edge click is issued whenever Route names one: the counter of
\* RESET_FLEET_PREPARATION clicks, ui_current, the first-screenshot flag and
\* the history of the call have no influence
C14_RoutingIsAFunction ==
    [][ GotoStep =>
          /\ tick'.kind = "edge" => tick'.click = Route(destination, frame', blocked)
          /\ Route(destination, frame', blocked) # NONE => tick'.kind = "edge" ]_vars

\* an edge click on a frame that shows two pages of the chain, after
\* RESET_FLEET_PREPARATION has been clicked
C14_Witness ==
    /\ tick.op = "ui_goto"
    /\ tick.kind = "edge"
    /\ Cardinality({p \in Destinations : CheckButton(p) \in frame /\ parent[p] # NULL}) >= 2
    /\ opsi > 0

\* C15: in ui_click with a hook, an iteration on a frame where the hook
\* handles something does not click the target, and after an iteration in
\* which the hook handled something the click timer and the confirmation
\* timer are reset
C15_HookHasFirstRefusal ==
    (tick.op = "ui_click" /\ uc # NoCall /\ uc.additional) =>
        /\ ~(tick.kind = "click" /\ "ADDITIONAL" \in frame)
        /\ tick.kind = "interrupt" => (uc.click_timer.n = 0 /\ uc.confirm_timer.n = 0)

\* the pairs of EnterMapCalls that have an entry in the table `dic` of
\* coalition_get_entrance
EntranceTable ==
    { <<"coalition_20230323", "tc1">>, <<"coalition_20230323", "tc3">>,
      <<"coalition_20251120", "area1-normal">> }

\* C16: a call of enter_map either enters its loop or raises at once; it
\* enters the loop only with a pair that has an entry in the entrance table,
\* and CampaignNameError is raised by the call itself, not by an iteration of
\* the loop: with the frame the caller had (no screenshot) and without a click
C16_UnknownStageRaisesAtOnce ==
    [][ /\ (pc \in {"idle", "returned"} /\ pc' # pc) => pc' \in {"enter_map", "raised"}
        /\ (pc # "enter_map" /\ pc' = "enter_map")
              => <<em'.event, em'.stage>> \in EntranceTable
        /\ (tick'.kind = "CampaignNameError" /\ tick' # tick)
              => /\ pc \in {"idle", "returned"}
                 /\ pc' = "raised"
                 /\ frame' = frame
                 /\ tick'.click = NONE ]_vars

\* enter_map has raised CampaignNameError
C16_Witness ==
    /\ pc = "raised"
    /\ tick.op = "enter_map"
    /\ tick.kind = "CampaignNameError"

\* C17: a call of ui_additional takes no screenshot of its own (and so does
\* not sleep before one): it works on the frame its caller sampled
C17_NoScreenshotInChain ==
    (ua # NoCall /\ ua.state = "done") => ua.screens = 0

\* an iteration of ui_goto or ui_get_current_page on the application
WorldStep == world # NoCall /\ world'.shots # world.shots

\* the iterations that end before ui_additional is called
BeforeAdditional == {"arrive", "edge", "page", "home", "GamePageUnknownError"}

\* C18: a click of RESET_FLEET_PREPARATION is issued only while fewer than 5
\* have been recorded, and is recorded; once 5 are recorded, an iteration of
\* ui_goto or ui_get_current_page that calls ui_additional ends the call
\* with RequestHumanTakeover, without a click
C18_FiveResetFleetClicks ==
    [][ WorldStep =>
          /\ opsi' <= OpsiLimit
          /\ tick'.click = "RESET_FLEET_PREPARATION"
                => (opsi < OpsiLimit /\ opsi' = opsi + 1)
          /\ (opsi >= OpsiLimit /\ tick'.kind \notin BeforeAdditional)
                => /\ pc' = "raised"
                   /\ tick'.kind = "RequestHumanTakeover"
                   /\ tick'.click = NONE
          /\ tick'.kind = "RequestHumanTakeover" => (pc' = "raised" /\ opsi >= OpsiLimit)
      ]_vars

\* ui_goto has ended with RequestHumanTakeover after the fifth recorded click
C18_Witness ==
    /\ pc = "raised"
    /\ tick.op = "ui_goto"
    /\ tick.kind = "RequestHumanTakeover"
    /\ opsi = OpsiLimit

\* C19: a call of ui_additional that does not raise returns True exactly
\* when the predicate of some rule matched on that call, and then the first
\* rule that matched is the rule that acted and the only one that matched
C19_FalseIffNoRuleMatched ==
    (ua # NoCall /\ ua.state = "done" /\ pc = "returned") =>
        /\ ua.handled <=> ua.matched # <<>>
        /\ ua.handled => (ua.rule = ua.matched[1] /\ Len(ua.matched) = 1)

\* the application shows a page ui_goto can recognize: the destination or a
\* page with a check button and a parent
OnChain ==
    /\ world.page \in Destinations
    /\ ui_page_appear(destination, {CheckButton(world.page)}) \/ parent[world.page] # NULL

\* C20: ui_goto on an application that answers every click and shows a page
\* on the parent chain of the destination, with overlays that appear finitely
\* often and go away when their rule clicks them, is on its way to return:
\* it does not end with an exception short of the destination
C20_OverlaysNeverDerail ==
    (tick.op = "ui_goto" /\ world.responsive /\ OnChain) => pc # "raised"

\* C21: an iteration of ui_goto that issues an edge click does nothing the
\* interrupt chain does: the call goes on, the click counter keeps its value
\* and the only timers set are the one of the recognized page's check button
\* and those ui_button_interval_reset sets for the button; an iteration in
\* which the chain acts recognized no page and issues the chain's click only
C21_EdgeClickOrInterruptChain ==
    [][ GotoStep =>
          /\ tick'.kind = "edge"
                => /\ pc' = "goto"
                   /\ opsi' = opsi
                   /\ blocked' = Track((blocked \cup {CheckButton(tick'.page)})
                                       \cup ui_button_interval_reset(tick'.click))
          /\ tick'.kind \in {"interrupt", "none", "RequestHumanTakeover"}
                => /\ tick'.page = NONE
                   /\ \A p \in Destinations : \A q \in DOMAIN Links(p) :
                         tick'.click = Links(p)[q] => tick'.kind = "interrupt"
      ]_vars

\* an edge click on a tick on which the chain, had it been called, would
\* have raised RequestHumanTakeover
C21_Witness ==
    /\ pc = "goto"
    /\ tick.op = "ui_goto"
    /\ tick.kind = "edge"
    /\ opsi = OpsiLimit

\* the pages with a parent whose check button is on frame f
ChainPagesOn(f, par) == {p \in Destinations : par[p] # NULL /\ CheckButton(p) \in f}

\* C22: ui_goto clicks the edge button of a page only when the 5-second
\* timer of the page's check button is not running, and the click starts
\* it; while the destination is not showing and every visible page of the
\* chain has its timer running, the iteration goes to the interrupt chain;
\* the call begins with the timers of all check buttons cleared, so on its
\* first iteration a visible page of the chain is matched
C22_EdgeClickThrottled ==
    [][ /\ (GotoStep /\ tick'.kind = "edge")
              => /\ CheckButton(tick'.page) \notin blocked
                 /\ CheckButton(tick'.page) \in blocked'
        /\ ( /\ GotoStep
             /\ ~ui_page_appear(destination, frame')
             /\ ChainPagesOn(frame', parent) # {}
             /\ \A p \in ChainPagesOn(frame', parent) : CheckButton(p) \in blocked )
              => tick'.kind \in {"interrupt", "none", "RequestHumanTakeover"}
        /\ (pc # "goto" /\ pc' = "goto") => blocked' \cap CheckButtons = {}
        /\ ( /\ GotoStep
             /\ tick.op = NONE
             /\ ~ui_page_appear(destination, frame')
             /\ ChainPagesOn(frame', parent) # {} )
              => tick'.kind = "edge"
      ]_vars

\* an iteration that went to the interrupt chain while a page of the chain
\* was showing with its timer running
C22_Witness ==
    /\ pc = "goto"
    /\ tick.op = "ui_goto"
    /\ tick.kind \in {"interrupt", "none"}
    /\ \E p \in ChainPagesOn(frame, parent) : CheckButton(p) \in blocked

\* C23: every iteration of ui_goto and of ui_get_current_page evaluates its
\* predicates on a frame: the first iteration skips the screenshot only if
\* device.image holds a cached frame
C23_PredicatesSeeAFrame ==
    tick.op \in {"ui_goto", "ui_get_current_page"}
        => (tick.kind # "NoImage" /\ frame # NoImage)


(***************************************************************************)
(* Properties of the loop of UI.ui_click.                                  *)
(***************************************************************************)

\* an iteration of ui_click that clicks the target: the loop goes on, the
\* screen is the one sampled and click_timer has just been reset
ClickIssued ==
    /\ pc = "ui_click"
    /\ pc' = "ui_click"
    /\ uc'.screen = uc.screen
    /\ uc'.click_timer.elapsed = 0
    /\ uc'.click_timer.n = 0
    /\ tick'.kind = "click"

\* C24: ui_click clicks the target only in an iteration where click_timer
\* has reached and the trigger is on the frame of that iteration; since
\* click_timer is reset by a click and by nothing else, a click that follows
\* another one of the same call comes at least retry_wait after it
C24_ClickOnlyWhenDueAndTriggered ==
    [][ ClickIssued
          => /\ "APPEAR_BUTTON" \in frame'
             /\ TRUE \in reached(counted(uc.click_timer))
             /\ uc.clicks > 0 => uc.click_timer.elapsed >= uc.click_timer.limit ]_vars

\* the target was clicked a second time in one call
C24_Witness ==
    /\ pc = "ui_click"
    /\ tick.op = "ui_click"
    /\ tick.kind = "click"
    /\ uc.clicks = 2

\* C25: ui_click returns only in an iteration whose frame shows the check
\* condition, and an iteration whose frame does not show it resets
\* confirm_timer: the reach count of confirm_timer is the number of
\* iterations in a row that saw the condition, it is zero while the last
\* frame sampled by the call does not show it, and it is above the timer's
\* count when the call returns
C25_ReturnAfterUnbrokenRun ==
    /\ (pc = "ui_click" /\ tick.op = "ui_click" /\ ~ui_process_check_button(frame))
          => uc.confirm_timer.n = 0
    /\ (pc = "returned" /\ uc # NoCall)
          => /\ ui_process_check_button(frame)
             /\ uc.confirm_timer.n > uc.confirm_timer.count

\* a call with a hook has returned: confirm_timer counted three iterations
\* in a row that saw the check condition
C25_Witness ==
    /\ pc = "returned"
    /\ uc # NoCall
    /\ uc.additional
    /\ tick.kind = "accept"
    /\ uc.clicks > 0


(***************************************************************************)
(* Properties of the loop of CoalitionUI.enter_map.                        *)
(***************************************************************************)

\* An iteration of the loop of enter_map.  While the loop runs the only
\* other step is EnterMapTimerReach, which takes a timer out of `blocked`.
EnterMapLoopStep == pc = "enter_map" /\ blocked \subseteq blocked'

\* the three buttons enter_map clicks to go forward
EnterMapTargets == {em.button, em.button_difficulty, em.fleet_preparation} \ {NONE}

\* C26: an iteration of enter_map in which an interrupt handler handles
\* something (no fatal check fired and BATTLE_PREPARATION is not shown)
\* leaves the three click counters as they are and clicks none of the
\* entrance, difficulty and fleet-preparation buttons
C26_InterruptIsNoClickAttempt ==
    [][ (EnterMapLoopStep /\ pc' = "enter_map"
           /\ FirstIn(EnterMapHandlers, frame') # NONE)
          => /\ em'.campaign_click = em.campaign_click
             /\ em'.campaign_difficulty_click = em.campaign_difficulty_click
             /\ em'.fleet_click = em.fleet_click
             /\ tick'.click \notin EnterMapTargets ]_vars

\* the guild popup was handled on a frame of the coalition page while
\* campaign_timer had reached
C26_Witness ==
    /\ pc = "enter_map"
    /\ tick.kind = "interrupt"
    /\ tick.click = "handle_guild_popup_cancel"
    /\ in_coalition(frame)
    /\ "campaign_timer" \notin blocked
    /\ em.campaign_click > 0

\* C27: enter_map returns only in an iteration whose frame shows
\* BATTLE_PREPARATION and none of the markers of an unprepared fleet, with
\* no click counter above its limit; an iteration whose frame shows
\* BATTLE_PREPARATION together with a marker raises RequestHumanTakeover
C27_ReturnOnlyPrepared ==
    [][ EnterMapLoopStep
          => /\ pc' = "returned"
                => /\ "BATTLE_PREPARATION" \in frame'
                   /\ FirstIn(FleetMarkers, frame') = NONE
                   /\ em'.campaign_click <= ClickLimit
                   /\ em'.campaign_difficulty_click <= ClickLimit
                   /\ em'.fleet_click <= ClickLimit
             /\ ("BATTLE_PREPARATION" \in frame' /\ FirstIn(FleetMarkers, frame') # NONE)
                => /\ pc' = "raised"
                   /\ tick'.kind = "RequestHumanTakeover" ]_vars

\* enter_map returned after it had clicked the fleet-preparation button
C27_Witness ==
    /\ pc = "returned"
    /\ tick.op = "enter_map"
    /\ tick.kind = "arrive"
    /\ em.fleet_click > 0

\* C28: in enter_map for the event with a difficulty-selection step, an
\* iteration whose frame shows the difficulty-selection page (and not the
\* coalition page) while campaign_difficulty_timer has reached, in which no
\* fatal check fires, BATTLE_PREPARATION is not shown and no interrupt
\* handler handles anything, clicks the difficulty button of the stage and
\* counts the click in campaign_difficulty_click
C28_DifficultyButtonClicked ==
    [][ (/\ EnterMapLoopStep
         /\ pc' = "enter_map"
         /\ em.event = "coalition_20251120"
         /\ in_coalition_20251120_difficulty_selection(frame')
         /\ ~in_coalition(frame')
         /\ "campaign_difficulty_timer" \notin blocked
         /\ FirstIn(EnterMapHandlers, frame') = NONE)
          => /\ tick'.click = coalition_20251120_get_entrance_difficulty(em.event, em.stage)
             /\ em'.campaign_difficulty_click = em.campaign_difficulty_click + 1 ]_vars

\* the stage entrance can be clicked on frame f with the timers b
EntranceDue(f, b) == "campaign_timer" \notin b /\ in_coalition(f)

\* the difficulty button can be clicked on frame f with the timers b
DifficultyDue(f, b) ==
    /\ em.event = "coalition_20251120"
    /\ "campaign_difficulty_timer" \notin b
    /\ in_coalition_20251120_difficulty_selection(f)
    /\ em.button_difficulty # NONE

\* C29: an iteration of enter_map clicks at most one of the stage entrance,
\* the difficulty button and the fleet-preparation button, and counts it; the
\* difficulty button is clicked only when the entrance is not due and the
\* fleet-preparation button only when neither of the others is; the entrance
\* is clicked only when campaign_timer has reached, and a fleet-preparation
\* click resets campaign_timer as well as fleet_timer
C29_OneTargetByPriority ==
    [][ EnterMapLoopStep
          => LET entrance   == em'.campaign_click - em.campaign_click
                 difficulty == em'.campaign_difficulty_click - em.campaign_difficulty_click
                 fleet      == em'.fleet_click - em.fleet_click
             IN  /\ {entrance, difficulty, fleet} \subseteq {0, 1}
                 /\ entrance + difficulty + fleet <= 1
                 /\ tick'.click \in EnterMapTargets <=> entrance + difficulty + fleet = 1
                 /\ entrance = 1 => (tick'.click = em.button /\ EntranceDue(frame', blocked))
                 /\ difficulty = 1 => (/\ tick'.click = em.button_difficulty
                                       /\ ~EntranceDue(frame', blocked))
                 /\ fleet = 1 => /\ tick'.click = em.fleet_preparation
                                 /\ ~EntranceDue(frame', blocked)
                                 /\ ~DifficultyDue(frame', blocked)
                                 /\ {"fleet_timer", "campaign_timer"} \subseteq blocked' ]_vars

\* the fleet-preparation button was clicked on a frame that also shows the
\* coalition page, after the entrance had been clicked
C29_Witness ==
    /\ pc = "enter_map"
    /\ tick.kind = "fleet"
    /\ in_coalition(frame)
    /\ em.campaign_click > 0
    /\ em.fleet_click > 0


(***************************************************************************)
(* Properties of CoalitionUI.coalition_map_exit.                           *)
(***************************************************************************)

\* An iteration of the loop of coalition_map_exit.  While the loop runs the
\* only other step is MapExitTimerReach, which takes a timer out of `blocked`.
MapExitLoopStep == pc = "map_exit" /\ blocked \subseteq blocked'

\* C30: coalition_map_exit returns only in an iteration whose frame shows
\* the coalition main page; an iteration issues at most one click, the one of
\* the first case that matches in the order battle preparation, fleet
\* preparation, DAL difficulty exit, Light_Shadow_Fashion exit
C30_ExitOnlyOnCoalitionPage ==
    [][ MapExitLoopStep
          => LET button == FirstIn(MapExitCases(em.fleet_preparation), frame' \ blocked)
             IN  /\ pc' = "returned" => in_coalition(frame')
                 /\ tick'.click # NONE
                       => (button # NONE /\ tick'.click = MapExitClick(button)) ]_vars


(***************************************************************************)
(* Properties of UI.ui_ensure_index.                                       *)
(***************************************************************************)

\* An iteration of the loop of ui_ensure_index (ue.current is -1 until the
\* first one has read the index).  While the loop runs the
\* only other step is IndexPass, which moves the clock of `retry` forward.
IndexLoopStep == pc = "ensure_index" /\ ue'.retry.elapsed \in {ue.retry.elapsed, 0}

\* one iteration: ui_ensure_index returns only in an iteration that read the
\* target index; an iteration that clicks clicks next_button only when it read an
\* index below the target and prev_button only when it read one above, in
\* fast mode as many times as the two differ, and the list moves by that
\* many
IndexIterationsAimAtTarget ==
    [][ IndexLoopStep
          => /\ world'.shown = ue'.current
             /\ pc' = "returned" => (ue'.current = ue.index /\ tick'.click = NONE)
             /\ tick'.click = "next_button" => ue'.current < ue.index
             /\ tick'.click = "prev_button" => ue'.current > ue.index
             /\ tick'.click \in {"next_button", "prev_button", NONE}
             /\ (tick'.click # NONE /\ ue.fast) => ue'.n = Abs(ue.index - ue'.current)
             /\ (tick'.click # NONE /\ ~ue.fast) => ue'.n = 1
             /\ tick'.click = NONE => ue'.n = 0
             /\ Abs(world'.index - world.index) = ue'.n ]_vars

\* one call: with a list that moves by one per click before
\* the next screenshot, a call of ui_ensure_index returns
IndexCallReturns == (pc = "ensure_index") ~> (pc = "returned")

\* C31: ui_ensure_index returns only in an iteration that read the target
\* index; an iteration that clicks clicks only next_button when it read an
\* index below the target and only prev_button when it read one above, in
\* fast mode as many times as the two differ; and with a list that moves by
\* one per click before the next screenshot the call returns
C31_EnsureIndexReachesTarget == IndexIterationsAimAtTarget /\ IndexCallReturns

\* a call in fast mode has returned in the iteration after its click
C31_Witness ==
    /\ pc = "returned"
    /\ tick.op = "ui_ensure_index"
    /\ ue.state = "index"
    /\ ue.fast
    /\ world.index = ue.index
    /\ ue.retry.n = 0


(***************************************************************************)
(* Properties of the traversal session (Page.init_connection to            *)
(* Page.clear_connection).                                                 *)
(***************************************************************************)

\* C32: at most one traversal session is active: while a ui_goto call runs
\* its loop, the parent table is the one init_connection built for the
\* call's destination and no step (edge click, ui_additional and its popup
\* handlers, time) builds or clears a table or changes the destination; the
\* table is cleared by the return of the call, and outside a call no step
\* touches it
C32_OneTraversalSession ==
    [][ /\ pc = "goto"
           => /\ parent = ParentsToward[destination]
              /\ destination' = destination
              /\ pc' = "goto" => parent' = parent
              /\ pc' = "returned" => parent' = clear_connection
        /\ (pc # "goto" /\ pc' # "goto") => parent' = parent ]_vars

\* an interrupt was handled inside a session and the table is still the
\* session's
C32_Witness ==
    /\ pc = "goto"
    /\ tick.op = "ui_goto"
    /\ tick.kind = "interrupt"
    /\ run.clicked
    /\ parent = ParentsToward[destination]


(***************************************************************************)
(* Properties of Cl1DataSubmitter.                                         *)
(***************************************************************************)

\* a call of auto_submit, made directly or by the generator
AutoSubmitStep == cl1.state = "on" /\ cl1'.flip # cl1.flip

\* C33: between two POSTs made through auto_submit or auto_submit_daemon by
\* one submitter at least _submit_interval elapses, whether the earlier POST
\* succeeded, failed or timed out
C33_PostsAnIntervalApart ==
    [][ (AutoSubmitStep /\ tick'.kind \in PostKinds /\ cl1.post_at >= 0)
          => cl1.now - cl1.post_at >= SubmitInterval ]_vars

\* C34: every resumption of the generator auto_submit_daemon calls
\* auto_submit once and then yields once; however the call goes, the
\* generator neither raises nor finishes
C34_OneCallOneYieldPerResume ==
    cl1.state = "on"
       => /\ cl1.gen \in {"created", "running", "yield", "suspended"}
          /\ cl1.gen = "running" => (cl1.calls = 0 /\ cl1.yields = 0)
          /\ cl1.gen = "yield" => (cl1.calls = 1 /\ cl1.yields = 0)
          /\ cl1.gen = "suspended" => (cl1.calls = 1 /\ cl1.yields = 1)

\* the generator has yielded after a call of auto_submit that did not
\* submit, later than a POST was made
C34_Witness ==
    /\ cl1.state = "on"
    /\ cl1.gen = "suspended"
    /\ tick.kind = "yield"
    /\ cl1.post_at >= 0
    /\ ~cl1.result
    /\ cl1.now > SubmitInterval


(***************************************************************************)
(* Properties of UI._opsi_reset_fleet_preparation_click over many calls.   *)
(***************************************************************************)

\* C35: _opsi_reset_fleet_preparation_click never decreases: no step, the
\* arrival of a ui_goto included, sets it back, so the clicks of separate
\* traversals add up; and once it has reached 5, every iteration of ui_goto
\* that gets to ui_additional ends with RequestHumanTakeover, whatever the
\* frame shows
C35_ClickCountIsCumulative ==
    [][ /\ opsi' >= opsi
        /\ (pc = "goto" /\ pc' = "returned") => opsi' = opsi
        /\ (GotoStep /\ opsi >= OpsiLimit /\ tick'.kind \notin {"arrive", "edge", "NoImage"})
              => (pc' = "raised" /\ tick'.kind = "RequestHumanTakeover") ]_vars

\* a traversal that clicked nothing itself has ended with
\* RequestHumanTakeover: the five clicks were made in earlier traversals
C35_Witness ==
    /\ pc = "raised"
    /\ tick.op = "ui_goto"
    /\ tick.kind = "RequestHumanTakeover"
    /\ opsi >= OpsiLimit
    /\ ~run.clicked
    /\ frame = {}

\* C36: for an event and a stage that have an entry in the table of
\* coalition_get_entrance, neither the set-up of enter_map nor
\* handle_fleet_preparation in its loop ends with ScriptError
C36_FleetPreparationNeverRaises ==
    (tick.op = "enter_map" /\ em # NoCall) => tick.kind # "ScriptError"


(***************************************************************************)
(* More properties of the loop of UI.ui_click.                             *)
(***************************************************************************)

\* C37: a call of ui_click or ui_back without a hook and with
\* confirm_wait > 0 does not return in the first iteration that sees the
\* check condition: when it returns, the iteration before, of the same call,
\* saw the condition too
C37_ConfirmWaitWithoutHook ==
    [][ (pc = "ui_click" /\ pc' = "returned" /\ ~uc.additional /\ uc.confirm_wait > 0)
          => (tick.op = "ui_click" /\ ui_process_check_button(frame)) ]_vars

\* C38: ui_click does not click the target in an iteration whose frame shows
\* the check condition
C38_NoClickWhileCheckHolds ==
    [][ ClickIssued => ~ui_process_check_button(frame') ]_vars

(* More properties of the loop of UI.ui_get_current_page. *)
\* C39: ui_get_current_page returns only a page whose check predicate matched
\* the frame of the returning iteration, ui_current is then that page, and it
\* raises GamePageUnknownError only when the last frame it sampled shows no
\* declared page
C39_ReturnAndRaiseFollowTheFrame ==
    (tick.op = "ui_get_current_page") =>
        /\ (pc = "returned" =>
               /\ tick.page # NONE
               /\ ui_page_appear(tick.page, frame)
               /\ ui_current = tick.page)
        /\ ((pc = "raised" /\ tick.kind = "GamePageUnknownError") =>
               PageMatch(frame) = NONE)

====
